---- MODULE Spec2Model ----
(***************************************************************************)
(* Model of the tessia installer-webhook: the session registry (Control,   *)
(* Session, EventAuth in control.rs), the control task that owns it        *)
(* (main.rs) and the request handlers that talk to it (servers.rs).        *)
(*                                                                         *)
(* Strings are sequences of one-character strings, so that trimming,       *)
(* splitting and formatting are computed and not assumed.                  *)
(***************************************************************************)
EXTENDS Integers, Sequences, FiniteSets, TLC

\* ------------------------------------------------------------------ bounds

\* Largest number of events a session's log takes in the model.
MaxLog == 2

\* The model's clock stops after this many ticks.
MaxTime == 4

\* Clock ticks per second: Instant is finer than the whole seconds that
\* Duration::as_secs() returns.
TicksPerSec == 2

\* The number of HTTP requests (producer tasks) of the model.
NumProducers == 2

\* The capacity of the queue in the model; mpsc::channel(100) in main.rs.
QueueCap == 2

\* The longest identifier that safe_filename is handed on its own, the
\* examples of the tests apart.
MaxIdent == 4

\* The largest number of parts of a multipart request.
MaxBatch == 2

\* ------------------------------------------------------------------ strings

Whitespace == {" ", "\t"}

RECURSIVE TrimStart(_)
TrimStart(s) ==
    IF s # <<>> /\ Head(s) \in Whitespace THEN TrimStart(Tail(s)) ELSE s

RECURSIVE TrimEnd(_)
TrimEnd(s) ==
    IF s # <<>> /\ s[Len(s)] \in Whitespace
    THEN TrimEnd(SubSeq(s, 1, Len(s) - 1))
    ELSE s

\* str::trim
Trim(s) == TrimEnd(TrimStart(s))

Digit(d) ==
    CASE d = 0 -> "0" [] d = 1 -> "1" [] d = 2 -> "2" [] d = 3 -> "3"
      [] d = 4 -> "4" [] d = 5 -> "5" [] d = 6 -> "6" [] d = 7 -> "7"
      [] d = 8 -> "8" [] d = 9 -> "9"

\* The decimal rendering of a usize ("{}").
RECURSIVE Decimal(_)
Decimal(n) ==
    IF n < 10 THEN <<Digit(n)>> ELSE Decimal(n \div 10) \o <<Digit(n % 10)>>

\* The position of the last '/' of s, 0 when there is none.
RECURSIVE LastSlash(_)
LastSlash(s) ==
    IF s = <<>> THEN 0
    ELSE IF s[Len(s)] = "/" THEN Len(s)
    ELSE LastSlash(SubSeq(s, 1, Len(s) - 1))

\* ------------------------------------------------------------------ events

Text(t) == [kind |-> "Text", text |-> t, ident |-> <<>>, data |-> <<>>]

Raw(ident, data) == [kind |-> "Raw", text |-> <<>>, ident |-> ident, data |-> data]

EventToStringLeak(ev) ==
    IF ev.kind = "Text"
    THEN ev.text
    ELSE <<"b", "i", "n", "a", "r", "y", ":">> \o ev.ident \o <<":">>
            \o [k \in 1..Len(ev.data) |-> IF ev.data[k] = 0 THEN "0" ELSE "#"]

\* impl Display for Event
EventToString(ev) ==
    IF ev.kind = "Text"
    THEN ev.text
    ELSE <<"b", "i", "n", "a", "r", "y", ":">> \o ev.ident \o <<":">>
            \o Decimal(Len(ev.data))

safe_filename_bare(ident) ==
    LET trail == SubSeq(ident, LastSlash(ident) + 1, Len(ident))
    IN  IF trail # <<>>
        THEN trail
        ELSE <<"f", "i", "l", "e", "_", "b", "i", "n", "a", "r", "y">>

safe_filename_whole(ident) ==
    IF ident # <<>>
    THEN <<"f", "i", "l", "e", "_">> \o ident
    ELSE <<"f", "i", "l", "e", "_", "b", "i", "n", "a", "r", "y">>

safe_filename_flat(ident) ==
    <<"f", "i", "l", "e", "_", "b", "i", "n", "a", "r", "y">>

safe_filename(ident) ==
    LET trail == SubSeq(ident, LastSlash(ident) + 1, Len(ident))
    IN  IF trail # <<>>
        THEN <<"f", "i", "l", "e", "_">> \o trail
        ELSE <<"f", "i", "l", "e", "_", "b", "i", "n", "a", "r", "y">>

EventsLogName == <<"/", "e", "v", "e", "n", "t", "s", ".", "l", "o", "g">>

\* ------------------------------------------------------------------ sessions

SessionIds == {"1", "2"}

\* SessionInit: the bodies of POST /session the model draws from.
SessionInits ==
    { [id |-> "1", log_path |-> <<"p">>, timeout |-> 1, secret |-> <<"a">>],
      [id |-> "1", log_path |-> <<"q">>, timeout |-> 0, secret |-> <<"a", "b", " ">>],
      [id |-> "2", log_path |-> <<"p">>, timeout |-> 2, secret |-> <<" ", "a">>] }

\* The signatures the model's events carry.
Signatures == { <<"a">>, <<"a", " ">>, <<"a", "b">>, <<"a", " ", "b">> }

\* The events the model's producers post.
Events ==
    { Text(<<"A">>), Raw(<<"d">>, <<255, 0>>) }

\* TriState<File>: Maybe, Yes(fd) with the descriptor's write offset (in
\* lines), Never.
TriMaybe == [tri |-> "Maybe", off |-> 0]

TriYes(off) == [tri |-> "Yes", off |-> off]

TriRetry == [tri |-> "Maybe", off |-> 0]

TriNever == [tri |-> "Never", off |-> 0]

\* BTreeMap::<usize, Event>::new()
EmptyLog == [k \in {} |-> Text(<<>>)]

\* Session::new
SessionNew(init, now) ==
    [ id |-> init.id,
      log_path |-> init.log_path,
      timeout |-> init.timeout,
      secret |-> init.secret,
      log |-> EmptyLog,
      file_descriptor |-> TriMaybe,
      last_updated |-> now ]

\* BTreeMap::insert
MapInsert(m, key, val) ==
    [k \in DOMAIN m \cup {key} |-> IF k = key THEN val ELSE m[k]]

\* The keys of S in increasing order (a BTreeMap iterates in key order).
RECURSIVE KeysInOrder(_)
KeysInOrder(S) ==
    IF S = {} THEN <<>>
    ELSE LET m == CHOOSE x \in S : \A y \in S : x <= y
         IN  <<m>> \o KeysInOrder(S \ {m})

\* ------------------------------------------------------------------ files

\* A file is a sequence of cells: the lines of events.log, the bytes of a
\* Raw file. Hole is what a write beyond the end of the file leaves between.
Hole == <<"\\0">>

NoFiles == [p \in {} |-> <<>>]

\* File::create: creates or truncates.
FileCreate(fs, path) ==
    [p \in DOMAIN fs \cup {path} |-> IF p = path THEN <<>> ELSE fs[p]]

\* A write of one cell at a descriptor's offset.
WriteAt(content, off, cell) ==
    IF off < Len(content)
    THEN [content EXCEPT ![off + 1] = cell]
    ELSE content \o [i \in 1..(off - Len(content)) |-> Hole] \o <<cell>>

\* The outcomes of the I/O of one add_log_entry: whether events.log can be
\* created, whether the line is written, and what becomes of the Raw file.
IOOutcomes ==
    [open : BOOLEAN, write : BOOLEAN, raw : {"nocreate", "nowrite", "partial", "full"}]

IOAllFine == [open |-> TRUE, write |-> TRUE, raw |-> "full"]

IOAllFail == [open |-> FALSE, write |-> FALSE, raw |-> "nocreate"]

add_log_entry_raw_append(s, fs, event, now, io) ==
    LET key == Cardinality(DOMAIN s.log)
        log1 == MapInsert(s.log, key, event)
        path == s.log_path \o EventsLogName
        opening == s.file_descriptor.tri = "Maybe"
        fd1 == IF opening
               THEN IF io.open THEN TriYes(0) ELSE TriNever
               ELSE s.file_descriptor
        fs1 == IF opening /\ io.open THEN FileCreate(fs, path) ELSE fs
        ev == log1[key]
        textWritten == ev.kind = "Text" /\ fd1.tri = "Yes" /\ io.write
        fd2 == IF textWritten THEN TriYes(fd1.off + 1) ELSE fd1
        rawpath == s.log_path \o <<"/">> \o safe_filename(ev.ident)
        fs2 == IF textWritten
               THEN [fs1 EXCEPT ![path] = WriteAt(fs1[path], fd1.off, ev.text)]
               ELSE IF ev.kind = "Raw" /\ io.raw # "nocreate"
               THEN [p \in DOMAIN fs1 \cup {rawpath} |->
                        IF p # rawpath THEN fs1[p]
                        ELSE IF p \in DOMAIN fs1 THEN fs1[p] \o ev.data
                        ELSE ev.data]
               ELSE fs1
    IN  [ session |-> [s EXCEPT !.log = log1,
                                !.last_updated = now,
                                !.file_descriptor = fd2],
          files |-> fs2 ]

NextKeySkip(log) == 2 * Cardinality(DOMAIN log)

NextKeyZero(log) == 0

\* let key = self.log.len()
NextKey(log) == Cardinality(DOMAIN log)

\* Session::add_log_entry: the session and the files afterwards.
add_log_entry(s, fs, event, now, io) ==
    LET key == NextKey(s.log)
        log1 == MapInsert(s.log, key, event)
        path == s.log_path \o EventsLogName
        opening == s.file_descriptor.tri = "Maybe"
        fd1 == IF opening
               THEN IF io.open THEN TriYes(0) ELSE TriNever
               ELSE s.file_descriptor
        fs1 == IF opening /\ io.open THEN FileCreate(fs, path) ELSE fs
        ev == log1[key]
        textWritten == ev.kind = "Text" /\ fd1.tri = "Yes" /\ io.write
        fd2 == IF textWritten THEN TriYes(fd1.off + 1) ELSE fd1
        rawpath == s.log_path \o <<"/">> \o safe_filename(ev.ident)
        rawdata == CASE io.raw = "full" -> ev.data
                     [] io.raw = "partial" -> SubSeq(ev.data, 1, Len(ev.data) - 1)
                     [] OTHER -> <<>>
        fs2 == IF textWritten
               THEN [fs1 EXCEPT ![path] = WriteAt(fs1[path], fd1.off, ev.text)]
               ELSE IF ev.kind = "Raw" /\ io.raw # "nocreate"
               THEN [p \in DOMAIN fs1 \cup {rawpath} |->
                        IF p = rawpath THEN rawdata ELSE fs1[p]]
               ELSE fs1
    IN  [ session |-> [s EXCEPT !.log = log1,
                                !.last_updated = now,
                                !.file_descriptor = fd2],
          files |-> fs2 ]

\* Option<usize>
None == [some |-> FALSE, val |-> 0]

Some(n) == [some |-> TRUE, val |-> n]

\* BTreeMap::range(start.._end) panics when start > _end; a map that never
\* held an entry has no root, and whether the bounds are checked then
\* depends on the standard library's version (strict: they are).
RangePanics(log, start, end, strict) ==
    /\ end.some
    /\ start > end.val
    /\ (DOMAIN log # {} \/ strict)

\* Session::get_log_entries, where the range does not panic.
get_log_entries(s, start, end) ==
    LET keys == IF end.some
                THEN {k \in DOMAIN s.log : k >= start /\ k < end.val}
                ELSE {k \in DOMAIN s.log : k >= start}
        order == KeysInOrder(keys)
    IN  [i \in 1..Len(order) |-> EventToString(s.log[order[i]])]

verify_exact(auth, secret) == auth.signature = secret

\* EventAuth::verify
verify(auth, secret) == Trim(auth.signature) = Trim(secret)

\* ------------------------------------------------------------------ messages

NoInit == [id |-> "", log_path |-> <<>>, timeout |-> 0, secret |-> <<>>]

NoAuth == [ident |-> "", signature |-> <<>>]

\* ControlMsg, one record shape for all variants.
Msg(type, init, id, event, auth, first, last) ==
    [ type |-> type, init |-> init, id |-> id, event |-> event, auth |-> auth,
      first_entry |-> first, last_entry |-> last ]

CreateSession(init) == Msg("CreateSession", init, init.id, Text(<<>>), NoAuth, 0, 0)

RemoveSession(id) == Msg("RemoveSession", NoInit, id, Text(<<>>), NoAuth, 0, 0)

AddEvent(event, auth) == Msg("AddEvent", NoInit, auth.ident, event, auth, 0, 0)

GetEvents(id, first, last) == Msg("GetEvents", NoInit, id, Text(<<>>), NoAuth, first, last)

Cleanup == Msg("Cleanup", NoInit, "", Text(<<>>), NoAuth, 0, 0)

Shutdown == Msg("Shutdown", NoInit, "", Text(<<>>), NoAuth, 0, 0)

NoMsg == Msg("None", NoInit, "", Text(<<>>), NoAuth, 0, 0)

\* ControlMsgResponse, and the two ways handle_message ends without one:
\* Err(()) on Shutdown, and a panic.
Response(kind, data) == [kind |-> kind, data |-> data]

Success == Response("Success", <<>>)

Failure == Response("Failure", <<>>)

EventsData(v) == Response("EventsData", v)

ErrShutdown == Response("Err", <<>>)

Panicked == Response("Panic", <<>>)

NoResponse == Response("None", <<>>)

\* ------------------------------------------------------------------ Control

\* Control::new
NoSessions == [i \in {} |-> SessionNew(NoInit, 0)]

\* What one call on Control leaves: the registry, the files, the response.
Outcome(ss, fs, r) == [sessions |-> ss, files |-> fs, resp |-> r]

add_session_keep(ss, session) ==
    IF session.id \in DOMAIN ss THEN ss
    ELSE [i \in DOMAIN ss \cup {session.id} |-> IF i = session.id THEN session ELSE ss[i]]

\* Control::add_session (HashMap::insert replaces)
add_session(ss, session) ==
    [i \in DOMAIN ss \cup {session.id} |-> IF i = session.id THEN session ELSE ss[i]]

remove_session_always(ss, id) ==
    [ sessions |-> [i \in DOMAIN ss \ {id} |-> ss[i]],
      removed |-> TRUE ]

\* Control::remove_session: the registry afterwards, and the result.
remove_session(ss, id) ==
    [ sessions |-> [i \in DOMAIN ss \ {id} |-> ss[i]],
      removed |-> id \in DOMAIN ss ]

process_event_late_verify(ss, fs, evt, auth, now, io) ==
    IF auth.ident \in DOMAIN ss
    THEN LET r == add_log_entry(ss[auth.ident], fs, evt, now, io)
         IN  IF ~verify(auth, ss[auth.ident].secret)
             THEN Outcome([ss EXCEPT ![auth.ident] = r.session], r.files, Failure)
             ELSE Outcome([ss EXCEPT ![auth.ident] = r.session], r.files, Success)
    ELSE Outcome(ss, fs, Failure)

process_event_autocreate(ss, fs, evt, auth, now, io) ==
    LET s0 == IF auth.ident \in DOMAIN ss
              THEN ss[auth.ident]
              ELSE SessionNew([id |-> auth.ident, log_path |-> <<"p">>,
                               timeout |-> 1, secret |-> auth.signature], now)
        ss0 == add_session(ss, s0)
    IN  IF auth.ident \in DOMAIN ss /\ verify(auth, s0.secret)
        THEN LET r == add_log_entry(s0, fs, evt, now, io)
             IN  Outcome([ss0 EXCEPT ![auth.ident] = r.session], r.files, Success)
        ELSE Outcome(ss0, fs, Failure)

process_event_disk_fatal(ss, fs, evt, auth, now, io) ==
    IF auth.ident \in DOMAIN ss
    THEN IF ~verify(auth, ss[auth.ident].secret) \/ io # IOAllFine
         THEN Outcome(ss, fs, Failure)
         ELSE LET r == add_log_entry(ss[auth.ident], fs, evt, now, io)
              IN  Outcome([ss EXCEPT ![auth.ident] = r.session], r.files, Success)
    ELSE Outcome(ss, fs, Failure)

process_event_adopt_signature(ss, fs, evt, auth, now, io) ==
    IF auth.ident \in DOMAIN ss
    THEN IF ~verify(auth, ss[auth.ident].secret)
         THEN Outcome(ss, fs, Failure)
         ELSE LET r == add_log_entry(ss[auth.ident], fs, evt, now, io)
              IN  Outcome([ss EXCEPT ![auth.ident] =
                              [r.session EXCEPT !.secret = auth.signature]],
                          r.files, Success)
    ELSE Outcome(ss, fs, Failure)

process_event_stale_on_fault(ss, fs, evt, auth, now, io) ==
    IF auth.ident \in DOMAIN ss
    THEN IF ~verify(auth, ss[auth.ident].secret)
         THEN Outcome(ss, fs, Failure)
         ELSE LET r == add_log_entry(ss[auth.ident], fs, evt, now, io)
                  t == IF io = IOAllFine THEN now ELSE ss[auth.ident].last_updated
              IN  Outcome([ss EXCEPT ![auth.ident] =
                              [r.session EXCEPT !.last_updated = t]],
                          r.files, Success)
    ELSE Outcome(ss, fs, Failure)

process_event_touch_all(ss, fs, evt, auth, now, io) ==
    IF auth.ident \in DOMAIN ss
    THEN IF ~verify(auth, ss[auth.ident].secret)
         THEN Outcome(ss, fs, Failure)
         ELSE LET r == add_log_entry(ss[auth.ident], fs, evt, now, io)
              IN  Outcome([i \in DOMAIN ss |->
                              IF i = auth.ident THEN r.session
                              ELSE [ss[i] EXCEPT !.last_updated = now]],
                          r.files, Success)
    ELSE Outcome(ss, fs, Failure)

\* Control::process_event
process_event(ss, fs, evt, auth, now, io) ==
    IF auth.ident \in DOMAIN ss
    THEN IF ~verify(auth, ss[auth.ident].secret)
         THEN Outcome(ss, fs, Failure)
         ELSE LET r == add_log_entry(ss[auth.ident], fs, evt, now, io)
              IN  Outcome([ss EXCEPT ![auth.ident] = r.session], r.files, Success)
    ELSE Outcome(ss, fs, Failure)

\* Control::get_event_list
get_event_list(ss, fs, session_id, first_entry, last_entry, strict) ==
    IF session_id \in DOMAIN ss
    THEN LET end == IF last_entry = 0 THEN None ELSE Some(last_entry)
         IN  IF RangePanics(ss[session_id].log, first_entry, end, strict)
             THEN Outcome(ss, fs, Panicked)
             ELSE Outcome(ss, fs,
                          EventsData(get_log_entries(ss[session_id], first_entry, end)))
    ELSE Outcome(ss, fs, Failure)

IdleSecsAbs(now, last_updated) ==
    (IF now > last_updated THEN now - last_updated ELSE last_updated - now)
        \div TicksPerSec

\* Instant::saturating_duration_since, then Duration::as_secs
IdleSecs(now, last_updated) ==
    (IF now > last_updated THEN now - last_updated ELSE 0) \div TicksPerSec

RetainedInclusive(s, now) == IdleSecs(now, s.last_updated) <= s.timeout

\* The closure of Control::cleanup: whether the session is retained.
Retained(s, now) == IdleSecs(now, s.last_updated) < s.timeout

cleanup_touch(ss, now) ==
    [i \in {j \in DOMAIN ss : Retained(ss[j], now)} |-> [ss[i] EXCEPT !.last_updated = now]]

\* Control::cleanup
cleanup(ss, now) == [i \in {j \in DOMAIN ss : Retained(ss[j], now)} |-> ss[i]]

\* What Control::cleanup returns: size_before - self.sessions.len()
cleanup_count(ss, now) ==
    Cardinality(DOMAIN ss) - Cardinality(DOMAIN cleanup(ss, now))

\* Control::handle_message
handle_message(ss, fs, m, now, io, strict) ==
    CASE m.type = "CreateSession" ->
            Outcome(add_session(ss, SessionNew(m.init, now)), fs, Success)
      [] m.type = "RemoveSession" ->
            LET r == remove_session(ss, m.id)
            IN  Outcome(r.sessions, fs, IF r.removed THEN Success ELSE Failure)
      [] m.type = "AddEvent" ->
            process_event(ss, fs, m.event, m.auth, now, io)
      [] m.type = "GetEvents" ->
            get_event_list(ss, fs, m.id, m.first_entry, m.last_entry, strict)
      [] m.type = "Cleanup" ->
            Outcome(cleanup(ss, now), fs, Success)
      [] m.type = "Shutdown" ->
            Outcome(ss, fs, ErrShutdown)


\* ------------------------------------------------------------------ state

VARIABLES
    sessions,   \* Control.sessions
    files,      \* the log directories: path -> content
    clock,      \* Instant::now(), in ticks
    resp,       \* what handle_message returned, until the reply is sent
    before,     \* the registry, the files and the time handle_message found
    accepted,   \* per session id, the events admitted since its creation
    apc,        \* the control task: recv, handle, reply, stopping, done
    cur,        \* the (msg, res_channel) the control task holds
    queue,      \* the mpsc channel's buffer
    closed,     \* control_rx is dropped
    chan,       \* the oneshot reply channel of each requester
    ppc,        \* each requester's position
    pmsg,       \* the message each requester sends
    pout,       \* what each requester's request resolved to
    pbatch,     \* what each POST /bin handler still has to send
    signals,    \* the two one-shot shutdown channels
    fnArg,      \* the string handed to safe_filename or webhook_auth on its own
    fnRet       \* what the function returned for it, <<>> before the call

vars ==
    << sessions, files, clock, resp, before, accepted, apc, cur, queue, closed,
       chan, ppc, pmsg, pout, pbatch, signals, fnArg, fnRet >>

fnVars == << fnArg, fnRet >>

ctlVars == << sessions, files, resp, before, accepted >>

reqVars == << chan, ppc, pmsg, pout >>

\* Requesters: the cleanup driver, the HTTP request handlers, the SIGTERM
\* listener (circuit_breaker).
Driver == 0

Producers == 1..NumProducers

Breaker == NumProducers + 1

Requesters == {Driver} \cup Producers \cup {Breaker}

Item(m, r) == [msg |-> m, reply |-> r]

NoItem == Item(NoMsg, Driver)

\* A oneshot channel: none (not created, or both ends gone), open, value
\* (sent, not yet received), txdropped (the sender is dropped without a
\* value), rxdropped (the receiver is dropped), discarded (a send found
\* no receiver and its value was dropped).
Chan(st, val) == [st |-> st, val |-> val]

NoChan == Chan("none", NoResponse)

\* How a request ended: reply (with the response), noresponse, unavailable.
Out(kind, r) == [kind |-> kind, resp |-> r]

NoOut == Out("none", NoResponse)

\* What a POST /bin handler holds while it works through the events of its
\* request: the events of the request, the events still to send and how
\* each call of control_add_event so far ended.
Batch(bin, parts, rest, outs) ==
    [bin |-> bin, parts |-> parts, rest |-> rest, outs |-> outs]

NoBatch == Batch(FALSE, <<>>, <<>>, <<>>)

Snapshot(ss, fs, now) == [sessions |-> ss, files |-> fs, now |-> now]

NoSnapshot == Snapshot(NoSessions, NoFiles, 0)

Idents == SessionIds \cup {"404"}

Auths == [ident : Idents, signature : Signatures]

\* The messages fed to the control task directly.
CtlMsgs ==
    {CreateSession(i) : i \in SessionInits}
        \cup {RemoveSession(id) : id \in Idents}
        \cup {AddEvent(e, a) : e \in Events, a \in Auths}
        \cup {Cleanup}

\* The program after main has built the registry and the channels.
Booted ==
    /\ sessions = NoSessions
    /\ files = NoFiles
    /\ clock = 0
    /\ resp = NoResponse
    /\ before = NoSnapshot
    /\ accepted = [i \in Idents |-> <<>>]
    /\ apc = "recv"
    /\ cur = NoItem
    /\ queue = <<>>
    /\ closed = FALSE
    /\ chan = [r \in Requesters |-> NoChan]
    /\ ppc = [r \in Requesters |-> "idle"]
    /\ pmsg = [r \in Requesters |-> NoMsg]
    /\ pout = [r \in Requesters |-> NoOut]
    /\ pbatch = [r \in Requesters |-> NoBatch]
    /\ signals = [l \in {"control", "webhook"} |-> "pending"]

Init ==
    /\ Booted
    /\ fnArg = <<>>
    /\ fnRet = <<>>

\* The I/O outcomes that make a difference to handling m.
IOFor(m) ==
    IF m.type # "AddEvent" THEN {IOAllFine}
    ELSE IF m.event.kind = "Text"
    THEN {io \in IOOutcomes : io.raw = "full"} \cup {IOAllFail}
    ELSE {io \in IOOutcomes : io.write} \cup {IOAllFail}

StrictFor(m) == IF m.type = "GetEvents" THEN BOOLEAN ELSE {TRUE}

\* The admitted events of each registered session, after m was handled
\* with response r and left the registry ss.
Admitted(acc, m, r, ss) ==
    [i \in Idents |->
        IF i \notin DOMAIN ss THEN <<>>
        ELSE IF m.type = "CreateSession" /\ m.init.id = i THEN <<>>
        ELSE IF m.type = "AddEvent" /\ m.auth.ident = i /\ r = Success
        THEN Append(acc[i], m.event)
        ELSE acc[i]]

KeepSenders(ch, q) == ch

\* The reply channels of the items of q lose their sender.
DropSenders(ch, q) ==
    [r \in Requesters |->
        IF \E k \in 1..Len(q) : q[k].reply = r
        THEN IF ch[r].st = "open" THEN Chan("txdropped", NoResponse) ELSE NoChan
        ELSE ch[r]]

\* Time passes.
Tick ==
    /\ clock < MaxTime
    /\ clock' = clock + 1
    /\ UNCHANGED << fnVars, pbatch, ctlVars, apc, cur, queue, closed, reqVars, signals >>

ActorRecvNewest ==
    /\ apc = "recv"
    /\ queue # <<>>
    /\ cur' = queue[Len(queue)]
    /\ queue' = SubSeq(queue, 1, Len(queue) - 1)
    /\ apc' = "handle"
    /\ UNCHANGED << fnVars, pbatch, ctlVars, clock, closed, reqVars, signals >>

\* control_rx.recv().await yields the oldest queued message.
ActorRecv ==
    /\ apc = "recv"
    /\ queue # <<>>
    /\ cur' = Head(queue)
    /\ queue' = Tail(queue)
    /\ apc' = "handle"
    /\ UNCHANGED << fnVars, pbatch, ctlVars, clock, closed, reqVars, signals >>

\* control.handle_message(msg): Ok(response), Err(()) on Shutdown (break),
\* or a panic, which drops the task with all it owns.
Handle(ios) ==
    /\ apc = "handle"
    /\ \E io \in ios \cap IOFor(cur.msg), strict \in StrictFor(cur.msg) :
          LET o == handle_message(sessions, files, cur.msg, clock, io, strict)
          IN  CASE o.resp = Panicked ->
                    /\ apc' = "done"
                    /\ resp' = Panicked
                    /\ closed' = TRUE
                    /\ queue' = <<>>
                    /\ chan' = DropSenders(chan, <<cur>> \o queue)
                    /\ signals' = [l \in DOMAIN signals |-> "dropped"]
                    /\ UNCHANGED << sessions, files, before, accepted >>
                [] o.resp = ErrShutdown ->
                    /\ apc' = "stopping"
                    /\ resp' = ErrShutdown
                    /\ chan' = DropSenders(chan, <<cur>>)
                    /\ UNCHANGED << sessions, files, before, accepted, queue,
                                    closed, signals >>
                [] OTHER ->
                    /\ apc' = "reply"
                    /\ sessions' = o.sessions
                    /\ files' = o.files
                    /\ resp' = o.resp
                    /\ before' = Snapshot(sessions, files, clock)
                    /\ accepted' = Admitted(accepted, cur.msg, o.resp, o.sessions)
                    /\ UNCHANGED << queue, closed, chan, signals >>
    /\ UNCHANGED << fnVars, pbatch, clock, cur, ppc, pmsg, pout >>

ActorReplyFatal ==
    /\ apc = "reply"
    /\ IF chan[cur.reply].st = "open"
       THEN /\ chan' = [chan EXCEPT ![cur.reply] = Chan("value", resp)]
            /\ apc' = "recv"
            /\ UNCHANGED << queue, closed >>
       ELSE /\ chan' = DropSenders([chan EXCEPT ![cur.reply] = NoChan], queue)
            /\ apc' = "done"
            /\ queue' = <<>>
            /\ closed' = TRUE
    /\ cur' = NoItem
    /\ resp' = NoResponse
    /\ before' = NoSnapshot
    /\ UNCHANGED << fnVars, pbatch, sessions, files, accepted, clock, ppc, pmsg, pout, signals >>

\* res_channel.send(ok): a failed send is logged and nothing else.
ActorReply ==
    /\ apc = "reply"
    /\ chan' = IF chan[cur.reply].st = "open"
               THEN [chan EXCEPT ![cur.reply] = Chan("value", resp)]
               ELSE [chan EXCEPT ![cur.reply] = Chan("discarded", NoResponse)]
    /\ apc' = "recv"
    /\ cur' = NoItem
    /\ resp' = NoResponse
    /\ before' = NoSnapshot
    /\ UNCHANGED << fnVars, pbatch, sessions, files, accepted, clock, queue, closed, ppc, pmsg,
                    pout, signals >>

ActorStopHalf ==
    /\ apc = "stopping"
    /\ signals' = [signals EXCEPT !["control"] = "fired"]
    /\ closed' = TRUE
    /\ chan' = DropSenders(chan, queue)
    /\ queue' = <<>>
    /\ apc' = "done"
    /\ UNCHANGED << fnVars, pbatch, ctlVars, clock, cur, ppc, pmsg, pout >>

\* After the loop: both shutdown signals are sent, then the task ends and
\* control_rx is dropped with whatever is still queued.
ActorStop ==
    /\ apc = "stopping"
    /\ signals' = [l \in DOMAIN signals |-> "fired"]
    /\ closed' = TRUE
    /\ chan' = DropSenders(chan, queue)
    /\ queue' = <<>>
    /\ apc' = "done"
    /\ UNCHANGED << fnVars, pbatch, ctlVars, clock, cur, ppc, pmsg, pout >>

\* The model's bound on a log: an AddEvent that would be admitted is taken
\* only while the log is shorter than MaxLog.
WithinBounds(m) ==
    (m.type = "AddEvent" /\ m.auth.ident \in DOMAIN sessions)
        => Cardinality(DOMAIN sessions[m.auth.ident].log) < MaxLog

\* A message reaches the control task with no requester waiting for it.
Feed(msgs) ==
    /\ apc = "recv"
    /\ queue = <<>>
    /\ \E m \in msgs :
          /\ WithinBounds(m)
          /\ cur' = Item(m, Driver)
    /\ apc' = "handle"
    /\ UNCHANGED << fnVars, pbatch, ctlVars, clock, queue, closed, reqVars, signals >>

\* The control task with every I/O outcome.
ActorHandle == Handle(IOOutcomes)

\* The control task on a disk where every create and every write succeeds.
ActorHandleFine == Handle({IOAllFine})

NextCtl == Feed(CtlMsgs) \/ ActorHandleFine \/ ActorReply

\* The control task fed with session and event messages, time standing
\* still.
SpecCtl == Init /\ [][NextCtl]_vars

\* The messages of the runs in which time passes.
TimeMsgs ==
    {CreateSession(i) : i \in SessionInits}
        \cup {AddEvent(Text(<<"A">>), [ident |-> id, signature |-> sg]) :
                id \in SessionIds, sg \in {<<"a">>, <<"a", "b">>}}
        \cup {Cleanup}

NextTime == Tick \/ Feed(TimeMsgs) \/ ActorHandleFine \/ ActorReply

\* The control task fed with session, event and cleanup messages while
\* time passes.
SpecTime == Init /\ [][NextTime]_vars

\* The messages of the runs that read logs back.
GetMsgs ==
    {CreateSession(i) : i \in {j \in SessionInits : j.timeout > 0}}
        \cup {AddEvent(e, [ident |-> id, signature |-> <<"a">>]) :
                e \in Events, id \in SessionIds}
        \cup {GetEvents(id, f, l) :
                id \in Idents, f \in 0..(MaxLog + 1), l \in 0..(MaxLog + 1)}

NextGet == Feed(GetMsgs) \/ ActorHandleFine \/ ActorReply

\* The control task fed with events and log queries.
SpecGet == Init /\ [][NextGet]_vars

\* The messages of the runs on a disk that may fail.
DiskMsgs ==
    {CreateSession(i) : i \in {j \in SessionInits : j.log_path = <<"p">>}}
        \cup {AddEvent(e, [ident |-> id, signature |-> sg]) :
                e \in Events, id \in SessionIds, sg \in {<<"a">>, <<"a", "b">>}}
        \cup {GetEvents(id, 0, 0) : id \in SessionIds}

NextDisk == Feed(DiskMsgs) \/ ActorHandle \/ ActorReply

\* The control task fed with events and log queries, every create and
\* every write of a file succeeding or failing.
SpecDisk == Init /\ [][NextDisk]_vars

\* The Raw events of the runs that look at the Raw files: two identifiers
\* with the same part after the last '/', and a third.
RawEvents ==
    { Raw(<<"d">>, <<255, 0>>), Raw(<<"x", "/", "d">>, <<7>>), Raw(<<"e">>, <<9>>) }

RawMsgs ==
    {CreateSession(i) : i \in {j \in SessionInits : j.log_path = <<"p">>}}
        \cup {AddEvent(e, [ident |-> id, signature |-> <<"a">>]) :
                e \in RawEvents \cup {Text(<<"A">>)}, id \in SessionIds}

\* The control task on a disk where events.log may fail to open or to be
\* written while the Raw files are created and written in full.
ActorHandleRaw == Handle({io \in IOOutcomes : io.raw = "full"})

NextRaw == Feed(RawMsgs) \/ ActorHandleRaw \/ ActorReply

\* The control task fed with Raw events.
SpecRaw == Init /\ [][NextRaw]_vars

\* The characters of the identifiers handed to safe_filename on its own.
NameChars == {"a", "/", "."}

\* The strings of NameChars of length n or less.
RECURSIVE StringsUpTo(_)
StringsUpTo(n) ==
    IF n = 0 THEN {<<>>}
    ELSE LET S == StringsUpTo(n - 1)
         IN  S \cup {Append(t, c) : t \in {u \in S : Len(u) = n - 1}, c \in NameChars}

\* The identifiers of tests::filenames.
NameExamples ==
    { <<"m", "e", "s", "s", "a", "g", "e", "-", "l", "o", "g", ".", "t", "x", "t">>,
      <<"/", "a", "n", "y", "/", "d", "i", "r", "/">>,
      <<".", "/", ".", ".">>,
      <<".", ".">>,
      <<".", ".", "/", ".", ".", "/", ".", ".", "/", "e", "t", "c", "/", "p", "a", "s", "s", "w", "d">>,
      <<"/", "v", "a", "r", "/", "l", "o", "g", "/", "m", "e", "s", "s", "a", "g", "e", "s", ".", "t", "a", "r", ".", "g", "z">> }

NameIdents == StringsUpTo(MaxIdent) \cup NameExamples

InitName ==
    /\ Booted
    /\ fnArg \in NameIdents
    /\ fnRet = <<>>

\* let filename = safe_filename(ident)
ApplyName ==
    /\ fnRet = <<>>
    /\ fnRet' = safe_filename(fnArg)
    /\ UNCHANGED << fnArg, pbatch, ctlVars, clock, apc, cur, queue, closed, reqVars, signals >>

\* safe_filename applied to each identifier of NameIdents.
SpecName == InitName /\ [][ApplyName]_vars

\* The events of the runs that look at the renderings: a text, and Raw
\* events with payloads of 2, 12 and 0 bytes.
RenderEvents ==
    { Text(<<"A">>),
      Raw(<<"d">>, <<255, 0>>),
      Raw(<<"s">>, <<1, 2, 3, 4, 5, 6, 7, 8, 9, 10, 11, 12>>),
      Raw(<<>>, <<>>) }

RenderMsgs ==
    {CreateSession(i) : i \in {j \in SessionInits : j.id = "1" /\ j.timeout > 0}}
        \cup {AddEvent(e, [ident |-> "1", signature |-> <<"a">>]) : e \in RenderEvents}
        \cup {GetEvents("1", q[1], q[2]) :
                q \in {r \in (0..MaxLog) \X (0..MaxLog) : r[2] = 0 \/ r[1] <= r[2]}}

NextRender == Feed(RenderMsgs) \/ ActorHandleFine \/ ActorReply

\* The control task fed with events of every kind and log queries.
SpecRender == Init /\ [][NextRender]_vars

\* The messages of the runs that watch the sessions' fields while time
\* passes: every kind of message, for registered and unknown ids.
IdleMsgs ==
    {CreateSession(i) : i \in SessionInits}
        \cup {AddEvent(Text(<<"A">>), [ident |-> id, signature |-> sg]) :
                id \in Idents, sg \in {<<"a">>, <<"a", "b">>}}
        \cup {GetEvents(id, 0, 0) : id \in Idents}
        \cup {RemoveSession(id) : id \in Idents}
        \cup {Cleanup}

NextIdle == Tick \/ Feed(IdleMsgs) \/ ActorHandleFine \/ ActorReply

\* The control task fed with every kind of message while time passes.
SpecIdle == Init /\ [][NextIdle]_vars

\* The messages of the runs on a disk that may fail while time passes.
IdleDiskMsgs ==
    {CreateSession(i) : i \in {j \in SessionInits : j.id = "1"}}
        \cup {AddEvent(e, [ident |-> "1", signature |-> <<"a">>]) : e \in Events}
        \cup {Cleanup}

NextIdleDisk == Tick \/ Feed(IdleDiskMsgs) \/ ActorHandle \/ ActorReply

\* The control task fed with events and cleanups while time passes, every
\* create and every write of a file succeeding or failing.
SpecIdleDisk == Init /\ [][NextIdleDisk]_vars

\* What Control::cleanup(Some(at_time)) returned, called on the Control
\* directly as tests::control_cleanup does.
Cleaned(n) == Response("Cleaned", <<n>>)

\* control.cleanup(Some(at_time)) for any at_time, the times before the
\* sessions' last activity included.
CleanupAt ==
    /\ apc = "recv"
    /\ queue = <<>>
    /\ \E at_time \in 0..MaxTime :
          /\ sessions' = cleanup(sessions, at_time)
          /\ resp' = Cleaned(cleanup_count(sessions, at_time))
          /\ before' = Snapshot(sessions, files, at_time)
    /\ cur' = Item(Cleanup, Driver)
    /\ apc' = "reply"
    /\ UNCHANGED << fnVars, pbatch, files, accepted, clock, queue, closed, reqVars, signals >>

\* The messages of the runs with cleanups at a supplied time.
CleanAtMsgs ==
    {CreateSession(i) : i \in SessionInits}
        \cup {AddEvent(Text(<<"A">>), [ident |-> id, signature |-> <<"a">>]) :
                id \in SessionIds}

NextCleanAt == Tick \/ Feed(CleanAtMsgs) \/ ActorHandleFine \/ ActorReply \/ CleanupAt

\* Sessions created and written to while time passes, and cleaned up at
\* supplied times.
SpecCleanAt == Init /\ [][NextCleanAt]_vars

\* The messages of the runs with two sessions side by side, in one log
\* directory, on a disk that may fail while time passes.
FrameMsgs ==
    {CreateSession(i) : i \in {j \in SessionInits : j.log_path = <<"p">>}}
        \cup {AddEvent(Text(<<"A">>), [ident |-> id, signature |-> <<"a">>]) :
                id \in SessionIds}

NextFrame == Tick \/ Feed(FrameMsgs) \/ ActorHandle \/ ActorReply

\* The control task fed with the events of two sessions while time
\* passes, every create and every write of a file succeeding or failing.
SpecFrame == Init /\ [][NextFrame]_vars

\* ------------------------------------------------------------------ tasks

\* The messages of the HTTP request handlers of the model.
ProdMsgs ==
    { CreateSession(CHOOSE i \in SessionInits : i.id = "1" /\ i.timeout > 0),
      AddEvent(Text(<<"A">>), [ident |-> "1", signature |-> <<"a">>]),
      AddEvent(Text(<<"A">>), [ident |-> "1", signature |-> <<"a", "b">>]),
      GetEvents("1", 0, 0),
      GetEvents("1", 2, 1),
      RemoveSession("1") }

HasRoom == Len(queue) < QueueCap

SendStepTry(r, m, sent, failed) ==
    IF closed \/ ~HasRoom
    THEN /\ ppc' = [ppc EXCEPT ![r] = failed]
         /\ chan' = [chan EXCEPT ![r] = NoChan]
         /\ UNCHANGED queue
    ELSE /\ ppc' = [ppc EXCEPT ![r] = sent]
         /\ queue' = Append(queue, Item(m, r))
         /\ chan' = [chan EXCEPT ![r] = IF @.st = "none" THEN Chan("open", NoResponse) ELSE @]

\* Sender::send(..).await of requester r with message m, from the state
\* st of its position on: the send fails when the channel is closed, puts
\* the message into the buffer when there is room, and waits for room
\* otherwise. sent and failed are the positions after it.
SendStep(r, m, sent, failed) ==
    IF closed
    THEN /\ ppc' = [ppc EXCEPT ![r] = failed]
         /\ chan' = [chan EXCEPT ![r] = NoChan]
         /\ UNCHANGED queue
    ELSE IF HasRoom
    THEN /\ ppc' = [ppc EXCEPT ![r] = sent]
         /\ queue' = Append(queue, Item(m, r))
         /\ chan' = [chan EXCEPT ![r] = IF @.st = "none" THEN Chan("open", NoResponse) ELSE @]
    ELSE /\ ppc' = [ppc EXCEPT ![r] = "sending"]
         /\ chan' = [chan EXCEPT ![r] = IF @.st = "none" THEN Chan("open", NoResponse) ELSE @]
         /\ UNCHANGED queue

\* A request handler (control_create_session, control_remove_session,
\* control_add_event, control_get_logs) creates its reply channel and
\* sends its message.
Request(p, msgs) ==
    /\ ppc[p] = "idle"
    /\ \E m \in msgs :
          /\ WithinBounds(m)
          /\ pmsg' = [pmsg EXCEPT ![p] = m]
          /\ SendStep(p, m, "waiting", "done")
    /\ pout' = [pout EXCEPT ![p] = IF closed THEN Out("unavailable", NoResponse) ELSE @]
    /\ UNCHANGED << fnVars, pbatch, ctlVars, clock, apc, cur, closed, signals >>

ProducerStart(p) == Request(p, ProdMsgs)

\* A handler that waited for room in the buffer gets it, or learns that
\* the channel is closed.
ProducerSend(p) ==
    /\ ppc[p] = "sending"
    /\ closed \/ HasRoom
    /\ SendStep(p, pmsg[p], "waiting", "done")
    /\ pout' = [pout EXCEPT ![p] = IF closed THEN Out("unavailable", NoResponse) ELSE @]
    /\ UNCHANGED << fnVars, pbatch, ctlVars, clock, apc, cur, closed, pmsg, signals >>

\* rx.await resolves: with the response, or with an error when the sender
\* was dropped.
ProducerRecv(p) ==
    /\ ppc[p] = "waiting"
    /\ chan[p].st \in {"value", "txdropped"}
    /\ pout' = [pout EXCEPT ![p] =
                  IF chan[p].st = "value"
                  THEN Out("reply", chan[p].val)
                  ELSE Out("noresponse", NoResponse)]
    /\ chan' = [chan EXCEPT ![p] = NoChan]
    /\ ppc' = [ppc EXCEPT ![p] = "done"]
    /\ UNCHANGED << fnVars, pbatch, ctlVars, clock, apc, cur, queue, closed, pmsg, signals >>

\* The HTTP client goes away and the handler's future is dropped.
ProducerAbandon(p) ==
    /\ ppc[p] \in {"sending", "waiting"}
    /\ chan' = [chan EXCEPT ![p] =
                  IF ppc[p] = "waiting" /\ @.st = "open"
                  THEN Chan("rxdropped", NoResponse)
                  ELSE NoChan]
    /\ ppc' = [ppc EXCEPT ![p] = "abandoned"]
    /\ UNCHANGED << fnVars, pbatch, ctlVars, clock, apc, cur, queue, closed, pmsg, pout, signals >>

\* The events multipart_filter_to_events makes of the parts of a request:
\* one Raw event for each part, in the order of the parts.
BinBatches ==
    UNION {[1..n -> {e \in Events : e.kind = "Raw"}] : n \in 1..MaxBatch}

\* The Authorization headers of the webhook requests of the model: the
\* token of session "1", a wrong token, and an unknown session.
BinAuths ==
    { [ident |-> "1", signature |-> <<"a">>],
      [ident |-> "1", signature |-> <<"a", "b">>],
      [ident |-> "404", signature |-> <<"a">>] }

BinRequestReversed(p, batches) ==
    /\ ppc[p] = "idle"
    /\ \E a \in BinAuths, es \in batches :
          LET back == [k \in 1..Len(es) |-> es[Len(es) + 1 - k]]
          IN  /\ pbatch' = [pbatch EXCEPT ![p] = Batch(TRUE, es, Tail(back), <<>>)]
              /\ pmsg' = [pmsg EXCEPT ![p] = AddEvent(Head(back), a)]
              /\ SendStep(p, AddEvent(Head(back), a), "waiting", "done")
    /\ pout' = [pout EXCEPT ![p] = IF closed THEN Out("unavailable", NoResponse) ELSE @]
    /\ UNCHANGED << fnVars, ctlVars, clock, apc, cur, closed, signals >>

\* control_add_events is entered with the events of one of the requests
\* batches: control_add_event is called for the first event with a clone
\* of the auth.
BinRequest(p, batches) ==
    /\ ppc[p] = "idle"
    /\ \E a \in BinAuths, es \in batches :
          /\ pbatch' = [pbatch EXCEPT ![p] = Batch(TRUE, es, Tail(es), <<>>)]
          /\ pmsg' = [pmsg EXCEPT ![p] = AddEvent(Head(es), a)]
          /\ SendStep(p, AddEvent(Head(es), a), "waiting", "done")
    /\ pout' = [pout EXCEPT ![p] = IF closed THEN Out("unavailable", NoResponse) ELSE @]
    /\ UNCHANGED << fnVars, ctlVars, clock, apc, cur, closed, signals >>

BinStart(p) == BinRequest(p, BinBatches)

\* The call of control_add_event for one event has returned: its result
\* is dropped by .ok() and the loop calls it for the next event.
BinNext(p) ==
    /\ ppc[p] = "done"
    /\ pbatch[p].bin
    /\ pbatch[p].rest # <<>>
    /\ pbatch' = [pbatch EXCEPT ![p] =
                    Batch(TRUE, @.parts, Tail(@.rest), Append(@.outs, pout[p]))]
    /\ pmsg' = [pmsg EXCEPT ![p] = AddEvent(Head(pbatch[p].rest), @.auth)]
    /\ SendStep(p, AddEvent(Head(pbatch[p].rest), pmsg[p].auth), "waiting", "done")
    /\ pout' = [pout EXCEPT ![p] = IF closed THEN Out("unavailable", NoResponse) ELSE NoOut]
    /\ UNCHANGED << fnVars, ctlVars, clock, apc, cur, closed, signals >>

\* The connection of handler p carries its next request.
ProducerAgain(p) ==
    /\ ppc[p] = "done"
    /\ ppc' = [ppc EXCEPT ![p] = "idle"]
    /\ pmsg' = [pmsg EXCEPT ![p] = NoMsg]
    /\ pout' = [pout EXCEPT ![p] = NoOut]
    /\ UNCHANGED << fnVars, pbatch, ctlVars, clock, apc, cur, queue, closed, chan, signals >>

\* The cleanup driver: timer.tick().await, then a Cleanup is sent. A failed
\* send is ignored, and the reply's receiver then resolves at once.
DriverStart ==
    /\ ppc[Driver] = "idle"
    /\ SendStep(Driver, Cleanup, "waiting", "idle")
    /\ UNCHANGED << fnVars, pbatch, ctlVars, clock, apc, cur, closed, pmsg, pout, signals >>

DriverSend ==
    /\ ppc[Driver] = "sending"
    /\ closed \/ HasRoom
    /\ SendStep(Driver, Cleanup, "waiting", "idle")
    /\ UNCHANGED << fnVars, pbatch, ctlVars, clock, apc, cur, closed, pmsg, pout, signals >>

DriverRecvEager ==
    /\ ppc[Driver] = "waiting"
    /\ chan' = [chan EXCEPT ![Driver] =
                  IF @.st = "open" THEN Chan("rxdropped", NoResponse) ELSE NoChan]
    /\ ppc' = [ppc EXCEPT ![Driver] = "idle"]
    /\ UNCHANGED << fnVars, pbatch, ctlVars, clock, apc, cur, queue, closed, pmsg, pout, signals >>

\* rx.await of the driver resolves and the loop starts over.
DriverRecv ==
    /\ ppc[Driver] = "waiting"
    /\ chan[Driver].st \in {"value", "txdropped"}
    /\ chan' = [chan EXCEPT ![Driver] = NoChan]
    /\ ppc' = [ppc EXCEPT ![Driver] = "idle"]
    /\ UNCHANGED << fnVars, pbatch, ctlVars, clock, apc, cur, queue, closed, pmsg, pout, signals >>

\* circuit_breaker: on SIGTERM a Shutdown is sent, its reply receiver
\* dropped at once.
BreakerStart ==
    /\ ppc[Breaker] = "idle"
    /\ IF closed
       THEN /\ ppc' = [ppc EXCEPT ![Breaker] = "done"]
            /\ UNCHANGED << queue, chan >>
       ELSE /\ chan' = [chan EXCEPT ![Breaker] = Chan("rxdropped", NoResponse)]
            /\ IF HasRoom
               THEN /\ queue' = Append(queue, Item(Shutdown, Breaker))
                    /\ ppc' = [ppc EXCEPT ![Breaker] = "done"]
               ELSE /\ ppc' = [ppc EXCEPT ![Breaker] = "sending"]
                    /\ UNCHANGED queue
    /\ UNCHANGED << fnVars, pbatch, ctlVars, clock, apc, cur, closed, pmsg, pout, signals >>

BreakerSend ==
    /\ ppc[Breaker] = "sending"
    /\ closed \/ HasRoom
    /\ SendStep(Breaker, Shutdown, "done", "done")
    /\ UNCHANGED << fnVars, pbatch, ctlVars, clock, apc, cur, closed, pmsg, pout, signals >>

Next ==
    \/ ActorRecv
    \/ ActorHandleFine
    \/ ActorReply
    \/ ActorStop
    \/ \E p \in Producers : ProducerStart(p)
    \/ \E p \in Producers : ProducerSend(p)
    \/ \E p \in Producers : ProducerRecv(p)
    \/ \E p \in Producers : ProducerAbandon(p)
    \/ DriverStart
    \/ DriverSend
    \/ DriverRecv
    \/ BreakerStart
    \/ BreakerSend

\* The program: the control task, the request handlers, the cleanup driver
\* and the SIGTERM listener around one bounded queue.
Spec == Init /\ [][Next]_vars

\* The requests of a client that keeps one session busy: it creates the
\* session, sends events with the right and with a wrong token, and reads
\* the log.
SweepMsgs ==
    { CreateSession(CHOOSE i \in SessionInits : i.id = "1" /\ i.timeout > 0),
      AddEvent(Text(<<"A">>), [ident |-> "1", signature |-> <<"a">>]),
      AddEvent(Text(<<"A">>), [ident |-> "1", signature |-> <<"a", "b">>]),
      GetEvents("1", 0, 0) }

NextSweep ==
    \/ Tick
    \/ ActorRecv
    \/ ActorHandleFine
    \/ ActorReply
    \/ Request(1, SweepMsgs)
    \/ ProducerRecv(1)
    \/ ProducerAgain(1)
    \/ DriverStart
    \/ DriverRecv

\* The control task runs whenever it can, the cleanup driver's timer keeps
\* ticking and its reply wakes it; nothing is required of the client or
\* of the passing of time.
FairSweep ==
    /\ WF_vars(ActorRecv)
    /\ WF_vars(ActorHandleFine)
    /\ WF_vars(ActorReply)
    /\ WF_vars(DriverStart)
    /\ WF_vars(DriverRecv)

\* One client with request after request, the cleanup driver and the
\* control task around the queue while time passes, fairly scheduled.
SpecSweep == Init /\ [][NextSweep]_vars /\ FairSweep

\* The scheduling of the runtime: the control task runs whenever it can;
\* a handler whose reply channel has resolved is woken; the channel's
\* semaphore is fair, so a handler waiting for room gets it when room
\* appears again and again.
Fairness ==
    /\ WF_vars(ActorRecv)
    /\ WF_vars(ActorHandleFine)
    /\ WF_vars(ActorReply)
    /\ WF_vars(ActorStop)
    /\ \A p \in Producers : SF_vars(ProducerSend(p)) /\ WF_vars(ProducerRecv(p))

\* The program under fair scheduling.
FairSpec == Init /\ [][Next]_vars /\ Fairness

\* The cleanup driver is a task like the others: it is woken when its
\* reply channel has resolved and when its send can go on.
FairDriver ==
    /\ Fairness
    /\ WF_vars(DriverSend)
    /\ WF_vars(DriverRecv)

\* The program with the cleanup driver fairly scheduled too.
FairSpecDriver == Init /\ [][Next]_vars /\ FairDriver

\* ------------------------------------------------------------------ HTTP

HttpStatusHopeful(m, out) ==
    CASE out.kind = "unavailable" -> 500
      [] out.kind = "noresponse" -> 200
      [] out.kind = "reply" /\ out.resp = Success -> 200
      [] OTHER -> 400

\* The status a request handler of servers.rs answers with, from the
\* message it sent and how its request ended.
HttpStatus(m, out) ==
    CASE out.kind = "unavailable" -> 500
      [] out.kind = "noresponse" -> 500
      [] out.kind = "reply" /\ m.type = "CreateSession" ->
            (CASE out.resp = Success -> 201 [] out.resp = Failure -> 400 [] OTHER -> 500)
      [] out.kind = "reply" /\ m.type = "RemoveSession" ->
            (CASE out.resp = Success -> 200 [] out.resp = Failure -> 404 [] OTHER -> 500)
      [] out.kind = "reply" /\ m.type = "AddEvent" ->
            (CASE out.resp = Success -> 200 [] out.resp = Failure -> 400 [] OTHER -> 500)
      [] out.kind = "reply" /\ m.type = "GetEvents" ->
            (CASE out.resp.kind = "EventsData" -> 200 [] out.resp = Failure -> 404
               [] OTHER -> 500)
      [] OTHER -> 0

\* The status control_add_events answers with after the loop over the
\* events, whatever the calls of control_add_event returned.
control_add_events(outs) == 200

\* The request of handler p is over.
Finished(p) == ppc[p] = "done" /\ pbatch[p].rest = <<>>

\* How the calls of control_add_event of the request of handler p ended.
InnerOuts(p) ==
    IF pbatch[p].bin THEN Append(pbatch[p].outs, pout[p]) ELSE <<pout[p]>>

\* The status the HTTP client of handler p gets.
Answer(p) ==
    IF pbatch[p].bin
    THEN control_add_events(InnerOuts(p))
    ELSE HttpStatus(pmsg[p], pout[p])

\* The control server's routes, POST /log and POST /bin around the control
\* task, all I/O succeeding and nobody shutting down.
NextHttp ==
    \/ ActorRecv
    \/ ActorHandleFine
    \/ ActorReply
    \/ \E p \in Producers : ProducerStart(p)
    \/ \E p \in Producers : ProducerRecv(p)
    \/ \E p \in Producers : BinStart(p)
    \/ \E p \in Producers : BinNext(p)

SpecHttp == Init /\ [][NextHttp]_vars

\* The multipart requests of the runs that look at the order of the
\* parts: one or two parts with names of their own.
OrderBatches ==
    {es \in UNION {[1..n -> RawEvents] : n \in 1..MaxBatch} :
        \A i, j \in 1..Len(es) : i # j => es[i] # es[j]}

\* What the other client sends meanwhile: it creates the session, posts a
\* line to POST /log and removes the session.
OrderMsgs ==
    { CreateSession(CHOOSE i \in SessionInits : i.id = "1" /\ i.timeout > 0),
      AddEvent(Text(<<"A">>), [ident |-> "1", signature |-> <<"a">>]),
      RemoveSession("1") }

NextOrder ==
    \/ ActorRecv
    \/ ActorHandleFine
    \/ ActorReply
    \/ BinRequest(1, OrderBatches)
    \/ BinNext(1)
    \/ Request(2, OrderMsgs)
    \/ ProducerAgain(2)
    \/ \E p \in Producers : ProducerRecv(p)

\* One POST /bin request with distinct parts next to a client that sends
\* request after request for the same session.
SpecOrder == Init /\ [][NextOrder]_vars

\* ------------------------------------------------------------------ webhook_auth

\* str::split(c): the pieces between the occurrences of c, empty pieces
\* included.
RECURSIVE Split(_, _)
Split(s, c) ==
    IF \E k \in 1..Len(s) : s[k] = c
    THEN LET k == CHOOSE i \in 1..Len(s) : s[i] = c /\ \A j \in 1..(i - 1) : s[j] # c
         IN  <<SubSeq(s, 1, k - 1)>> \o Split(SubSeq(s, k + 1, Len(s)), c)
    ELSE <<s>>

\* str::starts_with
StartsWith(s, prefix) ==
    Len(s) >= Len(prefix) /\ SubSeq(s, 1, Len(prefix)) = prefix

\* str::trim_matches(c)
RECURSIVE TrimMatches(_, _)
TrimMatches(s, c) ==
    IF s # <<>> /\ Head(s) = c THEN TrimMatches(Tail(s), c)
    ELSE IF s # <<>> /\ s[Len(s)] = c THEN TrimMatches(SubSeq(s, 1, Len(s) - 1), c)
    ELSE s

OAuthPrefix == <<"o", "a", "u", "t", "h", "_">>

ConsumerKey == <<"o", "a", "u", "t", "h", "_", "c", "o", "n", "s", "u", "m", "e", "r", "_", "k", "e", "y">>

Token == <<"o", "a", "u", "t", "h", "_", "t", "o", "k", "e", "n">>

Quote == "\""

\* EventAuth
EventAuth(ident, signature) == [ident |-> ident, signature |-> signature]

\* The inner loop of webhook_auth over the pieces of segment s after its
\* first '=': each piece is assigned in turn.
RECURSIVE AuthValues(_, _, _)
AuthValues(s, values, auth) ==
    IF values = <<>> THEN auth
    ELSE AuthValues(s, Tail(values),
            IF StartsWith(s, ConsumerKey)
            THEN EventAuth(TrimMatches(Head(values), Quote), auth.signature)
            ELSE IF StartsWith(s, Token)
            THEN EventAuth(auth.ident, TrimMatches(Head(values), Quote))
            ELSE auth)

\* The outer loop of webhook_auth over the segments that start with
\* "oauth_" once trimmed at the start.
RECURSIVE AuthSegments(_, _)
AuthSegments(segs, auth) ==
    IF segs = <<>> THEN auth
    ELSE LET s == TrimStart(Head(segs))
         IN  AuthSegments(Tail(segs),
                IF StartsWith(s, OAuthPrefix)
                THEN AuthValues(s, Tail(Split(s, "=")), auth)
                ELSE auth)

\* webhook_auth: the EventAuth made of the Authorization header.
webhook_auth(auth) == AuthSegments(Split(auth, ","), EventAuth(<<>>, <<>>))

\* The largest number of segments of an Authorization header.
MaxSegments == 3

\* The segments the Authorization headers of the model are made of.
AuthSegmentExamples ==
    { <<"o", "a", "u", "t", "h", "_", "c", "o", "n", "s", "u", "m", "e", "r", "_", "k", "e", "y", "=", "k">>,
      <<"o", "a", "u", "t", "h", "_", "c", "o", "n", "s", "u", "m", "e", "r", "_", "k", "e", "y", "=", "j">>,
      <<"o", "a", "u", "t", "h", "_", "t", "o", "k", "e", "n", "=", "t">>,
      <<" ", "o", "a", "u", "t", "h", "_", "t", "o", "k", "e", "n", "=", "\"", "u", "\"">>,
      <<"o", "a", "u", "t", "h", "_", "b", "r", "o", "k", "e", "n", "=", "x">>,
      <<"r", "e", "a", "l", "m", "=", "r">> }

\* The segments joined with commas.
RECURSIVE Joined(_)
Joined(segs) ==
    IF Len(segs) = 1 THEN segs[1]
    ELSE segs[1] \o <<",">> \o Joined(Tail(segs))

\* The Authorization headers of the model, the headers of
\* tests::test_auth among its shapes.
AuthHeaders ==
    {Joined(segs) : segs \in UNION {[1..n -> AuthSegmentExamples] : n \in 1..MaxSegments}}

InitAuth ==
    /\ Booted
    /\ fnArg \in AuthHeaders
    /\ fnRet = <<>>

\* The filter runs on the request's Authorization header.
ApplyAuth ==
    /\ fnRet = <<>>
    /\ fnRet' = <<webhook_auth(fnArg)>>
    /\ UNCHANGED << fnArg, pbatch, ctlVars, clock, apc, cur, queue, closed, reqVars, signals >>

\* webhook_auth applied to each header of AuthHeaders.
SpecAuth == InitAuth /\ [][ApplyAuth]_vars

\* ------------------------------------------------------------------ claims

\* The renderings of a sequence of events.
Rendered(evs) == [k \in 1..Len(evs) |-> EventToString(evs[k])]

\* The control task has handled the message it holds and not yet replied.
Handled(type) == apc = "reply" /\ cur.msg.type = type

\* C1: in every reachable state, reading a registered session's log from 0
\* without an end gives the renderings of exactly the events admitted for
\* that session since it was last created, in the order they were
\* handled, and as many entries as admitted events.
C1_LogIsAdmittedEvents ==
    \A id \in DOMAIN sessions :
        /\ get_log_entries(sessions[id], 0, None) = Rendered(accepted[id])
        /\ Len(get_log_entries(sessions[id], 0, None)) = Len(accepted[id])

\* Session "1" has admitted a Raw and then a Text event and reads back
\* "binary:d:2", "A"; session "2" holds one event of its own.
C1_Witness ==
    /\ DOMAIN sessions = SessionIds
    /\ accepted["1"] = << Raw(<<"d">>, <<255, 0>>), Text(<<"A">>) >>
    /\ accepted["2"] = << Text(<<"A">> ) >>
    /\ get_log_entries(sessions["1"], 0, None)
          = << <<"b", "i", "n", "a", "r", "y", ":", "d", ":", "2">>, <<"A">> >>

\* C2: the control task takes a message only when it holds none (the one
\* before is handled and replied to), always the oldest of the queue;
\* producers only append at the tail; the registry and the files change
\* only in the step that handles the held message, and that step is
\* followed by the reply to that message before anything else of the task.
C2_OneAtATimeInOrder ==
    [][ /\ (cur' # cur /\ cur' # NoItem) =>
              /\ apc = "recv" /\ cur = NoItem
              /\ queue # <<>> /\ cur' = Head(queue) /\ queue' = Tail(queue)
        /\ (queue' # queue) =>
              \/ \E r \in Requesters, m \in ProdMsgs \cup {Cleanup, Shutdown} :
                    queue' = Append(queue, Item(m, r))
              \/ queue' = Tail(queue) /\ cur' = Head(queue)
              \/ queue' = <<>> /\ closed'
        /\ (sessions' # sessions \/ files' # files) =>
              /\ apc = "handle" /\ apc' = "reply" /\ cur' = cur
              /\ \E io \in IOOutcomes :
                    LET o == handle_message(sessions, files, cur.msg, clock, io, TRUE)
                    IN  sessions' = o.sessions /\ files' = o.files /\ resp' = o.resp
        /\ (apc = "reply" /\ apc' # "reply") =>
              /\ apc' = "recv" /\ cur' = NoItem /\ queue' = queue
              /\ sessions' = sessions
              /\ chan[cur.reply].st = "open" => chan'[cur.reply] = Chan("value", resp)
      ]_vars

\* Two messages of different producers are queued, in the order they were
\* sent, behind the message the control task has handled and not yet
\* answered.
C2_Witness ==
    /\ apc = "reply"
    /\ cur.reply = Driver
    /\ Len(queue) = 2
    /\ queue[1].reply = 2 /\ queue[2].reply = 1
    /\ queue[1].msg # queue[2].msg

C4_EveryRequestResolves ==
    /\ [](\A p \in Producers :
            ppc[p] = "done" =>
                \/ pout[p].kind = "reply"
                     /\ pout[p].resp.kind \in {"Success", "Failure", "EventsData"}
                \/ pout[p].kind = "noresponse" /\ apc \in {"stopping", "done"}
                \/ pout[p].kind = "unavailable" /\ closed)
    /\ \A p \in Producers :
          (ppc[p] \in {"sending", "waiting"}) ~> (ppc[p] \in {"done", "abandoned"})

\* One handler ended with 'no response', its message having been queued
\* when the control task stopped, and another with 'control unavailable'.
C4_Witness ==
    \E p, q \in Producers :
        /\ ppc[p] = "done" /\ pout[p].kind = "noresponse"
        /\ ppc[q] = "done" /\ pout[q].kind = "unavailable"
        /\ apc = "done"

\* The smaller of two numbers.
Min(a, b) == IF a < b THEN a ELSE b

\* The renderings of the events with sequence number in [first, last) of
\* the events evs admitted in this order, last = 0 standing for no end.
ExpectedEvents(evs, first, last) ==
    LET all == Rendered(evs)
        stop == IF last = 0 THEN Len(all) ELSE Min(last, Len(all))
    IN  IF first >= stop THEN <<>> ELSE SubSeq(all, first + 1, stop)

\* The control task has taken up a GetEvents for a registered session.
GetEventsTaken ==
    /\ cur.msg.type = "GetEvents"
    /\ apc \in {"reply", "done"}
    /\ cur.msg.id \in DOMAIN sessions

\* C5: a GetEvents on a registered session, whatever its first_entry and
\* last_entry, last_entry below first_entry included, is answered with
\* EventsData and leaves the control task running.
C5_GetEventsNeverErrors ==
    GetEventsTaken => (apc = "reply" /\ resp.kind = "EventsData")

\* C6: a GetEvents for an id that is not registered is answered Failure;
\* for a registered id it is answered with the renderings of exactly the
\* events with sequence number in [first, last), in increasing order,
\* last = 0 standing for the unbounded tail, and with the empty list when
\* first is at or beyond the length of the log.
C6_GetEventsRange ==
    (cur.msg.type = "GetEvents" /\ apc \in {"reply", "done"}) =>
        IF cur.msg.id \in DOMAIN sessions
        THEN /\ resp = EventsData(ExpectedEvents(accepted[cur.msg.id],
                                                 cur.msg.first_entry,
                                                 cur.msg.last_entry))
             /\ (cur.msg.first_entry >= Len(accepted[cur.msg.id])
                    => resp = EventsData(<<>>))
        ELSE resp = Failure

\* The session an AddEvent names was registered when the message was taken
\* up, and the signature, trimmed, equals its secret, trimmed.
Authentic(m, ss) ==
    /\ m.auth.ident \in DOMAIN ss
    /\ Trim(m.auth.signature) = Trim(ss[m.auth.ident].secret)

\* C7: an AddEvent is answered Success exactly when a session with the id
\* auth.ident is registered as the message is handled and the trimmed
\* signature equals that session's trimmed secret; otherwise Failure.
C7_SuccessIffAuthentic ==
    Handled("AddEvent") =>
        /\ resp \in {Success, Failure}
        /\ resp = Success <=> Authentic(cur.msg, before.sessions)

\* An event is admitted whose signature "a " differs from the secret " a"
\* by surrounding whitespace only.
C7_Witness ==
    /\ Handled("AddEvent")
    /\ cur.msg.auth.ident \in DOMAIN before.sessions
    /\ resp = Success
    /\ cur.msg.auth.signature = <<"a", " ">>
    /\ before.sessions[cur.msg.auth.ident].secret = <<" ", "a">>

\* C8: an AddEvent for a registered session whose signature does not
\* verify is answered Failure, leaves that session (its log with it) as
\* it was, and leaves every file as it was.
C8_BadSignatureChangesNothing ==
    ( /\ Handled("AddEvent")
      /\ cur.msg.auth.ident \in DOMAIN before.sessions
      /\ ~Authentic(cur.msg, before.sessions) ) =>
        /\ resp = Failure
        /\ cur.msg.auth.ident \in DOMAIN sessions
        /\ sessions[cur.msg.auth.ident].log = before.sessions[cur.msg.auth.ident].log
        /\ Len(get_log_entries(sessions[cur.msg.auth.ident], 0, None))
              = Len(get_log_entries(before.sessions[cur.msg.auth.ident], 0, None))
        /\ sessions[cur.msg.auth.ident] = before.sessions[cur.msg.auth.ident]
        /\ files = before.files

\* A Raw event with a wrong signature was refused for a session that
\* holds an event and has its events.log open.
C8_Witness ==
    /\ Handled("AddEvent")
    /\ cur.msg.event.kind = "Raw"
    /\ cur.msg.auth.ident \in DOMAIN before.sessions
    /\ ~Authentic(cur.msg, before.sessions)
    /\ resp = Failure
    /\ DOMAIN sessions[cur.msg.auth.ident].log = {0}
    /\ sessions[cur.msg.auth.ident].file_descriptor.tri = "Yes"
    /\ DOMAIN files # {}

\* C9: an AddEvent whose auth.ident names no registered session is
\* answered Failure, and the registered ids, every session and every
\* file are as before.
C9_UnknownSessionCreatesNothing ==
    (Handled("AddEvent") /\ cur.msg.auth.ident \notin DOMAIN before.sessions) =>
        /\ resp = Failure
        /\ DOMAIN sessions = DOMAIN before.sessions
        /\ \A i \in DOMAIN sessions : sessions[i].log = before.sessions[i].log
        /\ sessions = before.sessions
        /\ files = before.files

\* An event for the unregistered id "2" was refused while session "1" is
\* registered with an event in its log.
C9_Witness ==
    /\ Handled("AddEvent")
    /\ cur.msg.auth.ident = "2"
    /\ DOMAIN before.sessions = {"1"}
    /\ resp = Failure
    /\ DOMAIN sessions = {"1"}
    /\ DOMAIN sessions["1"].log # {}

\* The ticks between a session's last activity and the time the handled
\* message took as now.
IdleTicks(s) == before.now - s.last_updated

\* C10: a Cleanup at time now removes exactly the registered sessions
\* whose idle time in whole seconds has reached their own timeout and
\* keeps every other session as it was; a session exactly at its timeout
\* is removed, a session one second short of it is kept.
C10_CleanupRemovesExactlyIdle ==
    Handled("Cleanup") =>
        /\ resp = Success
        /\ DOMAIN sessions \subseteq DOMAIN before.sessions
        /\ \A i \in DOMAIN before.sessions :
              LET s == before.sessions[i]
              IN  /\ (IdleTicks(s) \div TicksPerSec >= s.timeout) <=> i \notin DOMAIN sessions
                  /\ i \in DOMAIN sessions => sessions[i] = s
                  /\ IdleTicks(s) = s.timeout * TicksPerSec => i \notin DOMAIN sessions
                  /\ (s.timeout >= 1 /\ IdleTicks(s) = (s.timeout - 1) * TicksPerSec)
                        => i \in DOMAIN sessions

\* A Cleanup has removed session "1", idle for exactly its timeout of one
\* second, and kept session "2", idle for one second of its timeout of
\* two.
C10_Witness ==
    /\ Handled("Cleanup")
    /\ DOMAIN before.sessions = SessionIds
    /\ before.sessions["1"].timeout = 1
    /\ IdleTicks(before.sessions["1"]) = TicksPerSec
    /\ before.sessions["2"].timeout = 2
    /\ IdleTicks(before.sessions["2"]) = TicksPerSec
    /\ DOMAIN before.sessions["2"].log # {}
    /\ DOMAIN sessions = {"2"}

\* C11: a CreateSession is always answered Success; afterwards the registry
\* holds the ids it held and the new id, the session of that id is a fresh
\* one (empty log, next sequence number 0, the secret, timeout and log path
\* of the request, the log file unresolved, last activity at the time of
\* handling) whether or not the id was registered before, and every other
\* session is as it was.
C11_CreateReplaces ==
    Handled("CreateSession") =>
        LET init == cur.msg.init
            id == init.id
        IN  /\ resp = Success
            /\ DOMAIN sessions = DOMAIN before.sessions \cup {id}
            /\ sessions[id].id = id
            /\ sessions[id].log = EmptyLog
            /\ NextKey(sessions[id].log) = 0
            /\ get_log_entries(sessions[id], 0, None) = <<>>
            /\ sessions[id].secret = init.secret
            /\ sessions[id].timeout = init.timeout
            /\ sessions[id].log_path = init.log_path
            /\ sessions[id].file_descriptor = TriMaybe
            /\ sessions[id].last_updated = before.now
            /\ \A i \in DOMAIN before.sessions \ {id} :
                  sessions[i] = before.sessions[i]

\* Session "1", which held an event, had its events.log open and was last
\* active earlier, is replaced by a session with another log path, while
\* session "2" holds an event.
C11_Witness ==
    /\ Handled("CreateSession")
    /\ cur.msg.init.id = "1"
    /\ DOMAIN before.sessions = SessionIds
    /\ DOMAIN before.sessions["1"].log # {}
    /\ before.sessions["1"].file_descriptor.tri = "Yes"
    /\ before.sessions["1"].log_path = <<"p">>
    /\ before.sessions["1"].last_updated < before.now
    /\ cur.msg.init.log_path = <<"q">>
    /\ DOMAIN sessions["2"].log # {}
    /\ sessions["1"].log = EmptyLog

\* C12: a RemoveSession(id) is answered Success exactly when the id is
\* registered as the message is handled and Failure exactly when it is
\* not; afterwards the id is not registered and every other session is as
\* it was; and no message other than a CreateSession registers an id, so
\* that a second RemoveSession of the id with no CreateSession of it in
\* between finds it unregistered and is answered Failure.
C12_RemoveIffRegistered ==
    [][ /\ (apc = "handle" /\ apc' = "reply" /\ cur.msg.type = "RemoveSession") =>
              /\ resp' \in {Success, Failure}
              /\ resp' = Success <=> cur.msg.id \in DOMAIN sessions
              /\ resp' = Failure <=> cur.msg.id \notin DOMAIN sessions
              /\ DOMAIN sessions' = DOMAIN sessions \ {cur.msg.id}
              /\ \A i \in DOMAIN sessions' : sessions'[i] = sessions[i]
        /\ \A i \in Idents :
              (i \notin DOMAIN sessions /\ i \in DOMAIN sessions') =>
                  /\ apc = "handle"
                  /\ cur.msg.type = "CreateSession"
                  /\ cur.msg.init.id = i
      ]_vars

\* Session "1" was removed with Success while session "2", holding an
\* event, stays as it was.
C12_Witness ==
    /\ Handled("RemoveSession")
    /\ cur.msg.id = "1"
    /\ resp = Success
    /\ DOMAIN before.sessions = SessionIds
    /\ DOMAIN sessions = {"2"}
    /\ DOMAIN sessions["2"].log # {}
    /\ sessions["2"] = before.sessions["2"]

\* Every shutdown signal is in the state st.
AllSignals(st) == \A l \in DOMAIN signals : signals[l] = st

\* C13: the control task that handles a Shutdown sends no reply for it and
\* leaves its loop; from then on it takes no message (the queue only
\* grows at its tail until it is dropped whole), the registry and the
\* files stay as they are and no reply is sent any more; the two shutdown
\* signals change only together, from pending, and after a Shutdown to
\* fired, so each is fired once; and a control task that has left its
\* loop on a Shutdown does fire both.
C13_ShutdownStops ==
    /\ [][ /\ (apc = "handle" /\ cur.msg.type = "Shutdown" /\ apc' # apc) =>
                 /\ apc' = "stopping"
                 /\ resp' = ErrShutdown
                 /\ chan'[cur.reply].st # "value"
                 /\ sessions' = sessions /\ files' = files
                 /\ signals' = signals
           /\ (apc \in {"stopping", "done"}) =>
                 /\ apc' \in {"stopping", "done"}
                 /\ cur' = cur
                 /\ sessions' = sessions /\ files' = files
                 /\ \A r \in Requesters : chan'[r].st = "value" => chan[r].st = "value"
                 /\ \/ queue' = <<>> /\ closed'
                    \/ /\ Len(queue') >= Len(queue)
                       /\ SubSeq(queue', 1, Len(queue)) = queue
           /\ (apc = "stopping" /\ apc' = "done") =>
                 /\ queue' = <<>> /\ closed'
                 /\ AllSignals("pending")
                 /\ \A l \in DOMAIN signals : signals'[l] = "fired"
           /\ (signals' # signals) =>
                 /\ AllSignals("pending")
                 /\ cur.msg.type = "Shutdown" =>
                       (apc = "stopping" /\ \A l \in DOMAIN signals : signals'[l] = "fired")
         ]_vars
    /\ (apc = "stopping") ~> (apc = "done" /\ AllSignals("fired"))
    /\ [](AllSignals("fired") => [](AllSignals("fired")))

\* The control task has stopped on a Shutdown with a session registered
\* and both signals fired; a request that was queued behind the Shutdown
\* ended with 'no response'.
C13_Witness ==
    /\ apc = "done"
    /\ cur.msg.type = "Shutdown"
    /\ resp = ErrShutdown
    /\ AllSignals("fired")
    /\ DOMAIN signals = {"control", "webhook"}
    /\ DOMAIN sessions # {}
    /\ chan[Breaker].st # "value"
    /\ \E p \in Producers : ppc[p] = "done" /\ pout[p].kind = "noresponse"

\* C14: when the control task replies to a message whose reply receiver
\* is gone, the failed send is discarded and nothing else happens: the
\* registry and the files keep what the message did to them, the queue
\* stays open with its content, no shutdown signal changes, no other
\* reply channel is touched, and the task is back at taking the next
\* message.
C14_FailedReplyDiscarded ==
    [][ (apc = "reply" /\ apc' # apc /\ chan[cur.reply].st # "open") =>
            /\ apc' = "recv"
            /\ sessions' = sessions
            /\ files' = files
            /\ queue' = queue
            /\ closed' = closed
            /\ signals' = signals
            /\ chan'[cur.reply].st = "discarded"
            /\ \A r \in Requesters \ {cur.reply} : chan'[r] = chan[r]
      ]_vars

\* The CreateSession of a handler that was abandoned before the reply has
\* registered session "1" and its reply was discarded; the control task
\* has since admitted the event of another handler to that session.
C14_Witness ==
    \E p, q \in Producers :
        /\ p # q
        /\ ppc[p] = "abandoned"
        /\ chan[p].st = "discarded"
        /\ pmsg[p].type = "CreateSession"
        /\ apc = "reply"
        /\ cur.reply = q
        /\ cur.msg.type = "AddEvent"
        /\ resp = Success
        /\ ~closed
        /\ pmsg[p].init.id \in DOMAIN sessions
        /\ DOMAIN sessions[pmsg[p].init.id].log # {}

\* C15: whatever becomes of the files, an AddEvent for a registered
\* session with a signature that verifies is answered Success and its
\* event is the new last entry of the session's log; the log of every
\* session is its admitted events; and a GetEvents from 0 without an end
\* returns them all, in order.
C15_DiskFaultsNeverFail ==
    /\ (Handled("AddEvent") /\ Authentic(cur.msg, before.sessions)) =>
          LET id == cur.msg.auth.ident
              old == before.sessions[id]
          IN  /\ resp = Success
              /\ id \in DOMAIN sessions
              /\ sessions[id].log
                    = MapInsert(old.log, Cardinality(DOMAIN old.log), cur.msg.event)
              /\ get_log_entries(sessions[id], 0, None)
                    = Append(get_log_entries(old, 0, None), EventToString(cur.msg.event))
    /\ \A id \in DOMAIN sessions :
          get_log_entries(sessions[id], 0, None) = Rendered(accepted[id])
    /\ (Handled("GetEvents") /\ cur.msg.id \in DOMAIN sessions) =>
          resp = EventsData(Rendered(accepted[cur.msg.id]))

\* A GetEvents returns the Text and the Raw event of a session none of
\* whose files could be created: no file exists and its events.log is
\* failed.
C15_Witness ==
    /\ Handled("GetEvents")
    /\ cur.msg.id \in DOMAIN sessions
    /\ Len(resp.data) = 2
    /\ \E k \in 1..2 : accepted[cur.msg.id][k].kind = "Text"
    /\ \E k \in 1..2 : accepted[cur.msg.id][k].kind = "Raw"
    /\ sessions[cur.msg.id].file_descriptor = TriNever
    /\ files = NoFiles

\* The step is the handling of a CreateSession for id.
Recreates(id) ==
    apc = "handle" /\ cur.msg.type = "CreateSession" /\ cur.msg.init.id = id

\* The step is the handling of an AddEvent for id.
AddsTo(id) ==
    apc = "handle" /\ cur.msg.type = "AddEvent" /\ cur.msg.auth.ident = id

\* C16: for a session that stays registered and is not replaced, the state
\* of the log file changes only from unresolved, to open or to failed,
\* and does so in the step that admits the session's first event; it is
\* unresolved exactly while the log is empty; once failed it stays failed
\* and the session never creates events.log; once open it stays open, the
\* file is not created again, and a Text event is written through the
\* same descriptor, at its offset, which then advances.
C16_TriStateResolvesOnce ==
    [][ \A id \in DOMAIN sessions \cap DOMAIN sessions' :
          LET s == sessions[id]
              t == sessions'[id]
              a == s.file_descriptor
              b == t.file_descriptor
              path == s.log_path \o EventsLogName
          IN  ~Recreates(id) =>
                /\ (a.tri = "Maybe") <=> (s.log = EmptyLog)
                /\ (b.tri = "Maybe") <=> (t.log = EmptyLog)
                /\ a.tri # b.tri =>
                      /\ a.tri = "Maybe" /\ b.tri \in {"Yes", "Never"}
                      /\ AddsTo(id)
                      /\ s.log = EmptyLog /\ DOMAIN t.log = {0}
                /\ a.tri = "Never" =>
                      /\ b = a
                      /\ AddsTo(id) =>
                            /\ (path \in DOMAIN files') = (path \in DOMAIN files)
                            /\ path \in DOMAIN files => files'[path] = files[path]
                /\ a.tri = "Yes" =>
                      /\ b.tri = "Yes"
                      /\ path \in DOMAIN files
                      /\ AddsTo(id) =>
                            \/ /\ files'[path] = files[path]
                               /\ b.off = a.off
                            \/ /\ cur.msg.event.kind = "Text"
                               /\ files'[path] = WriteAt(files[path], a.off, cur.msg.event.text)
                               /\ b.off = a.off + 1
      ]_vars

\* Session "1" holds two events with its log file failed since the first,
\* and session "2" has written its two Text events through the
\* descriptor it opened at the first.
C16_Witness ==
    /\ DOMAIN sessions = SessionIds
    /\ sessions["1"].file_descriptor = TriNever
    /\ Cardinality(DOMAIN sessions["1"].log) = 2
    /\ sessions["2"].file_descriptor = TriYes(2)
    /\ Cardinality(DOMAIN sessions["2"].log) = 2

\* The path is the events.log of a log directory.
IsEventsLog(path) ==
    /\ Len(path) > Len(EventsLogName)
    /\ SubSeq(path, Len(path) - Len(EventsLogName) + 1, Len(path)) = EventsLogName

\* C17: with every create and write succeeding, an events.log only grows
\* at its end: in every step each events.log that exists still exists
\* and begins with all the lines it held, whatever message is handled (an
\* AddEvent, a CreateSession of the same id, a message of a session of
\* another id with the same log directory), and each of its lines is the
\* text of a Text event.
C17_EventsLogAppendOnly ==
    [][ \A path \in DOMAIN files :
          IsEventsLog(path) =>
              /\ path \in DOMAIN files'
              /\ Len(files'[path]) >= Len(files[path])
              /\ SubSeq(files'[path], 1, Len(files[path])) = files[path]
              /\ \A k \in 1..Len(files'[path]) :
                    \E e \in Events : e.kind = "Text" /\ files'[path][k] = e.text
      ]_vars

\* The file an admitted Raw event of the handled message goes to.
RawPath == before.sessions[cur.msg.auth.ident].log_path \o <<"/">>
              \o safe_filename(cur.msg.event.ident)

\* The control task has admitted a Raw event.
RawAdmitted ==
    /\ Handled("AddEvent")
    /\ cur.msg.event.kind = "Raw"
    /\ resp = Success

RECURSIVE Trail(_)
Trail(s) ==
    IF \E k \in 1..Len(s) : s[k] = "/" THEN Trail(Tail(s)) ELSE s

\* The file of directory dir a Raw event with identifier i goes to.
RawFileOf(dir, i) == dir \o <<"/">> \o safe_filename(i)

C20_SafeFilename ==
    fnRet # <<>> =>
        /\ fnRet = IF Trail(fnArg) # <<>>
                   THEN <<"f", "i", "l", "e", "_">> \o Trail(fnArg)
                   ELSE <<"f", "i", "l", "e", "_", "b", "i", "n", "a", "r", "y">>
        /\ (fnArg = <<>> \/ fnArg[Len(fnArg)] = "/")
              <=> fnRet = <<"f", "i", "l", "e", "_", "b", "i", "n", "a", "r", "y">>
        /\ fnArg = <<"m", "e", "s", "s", "a", "g", "e", "-", "l", "o", "g", ".", "t", "x", "t">>
              => fnRet = <<"f", "i", "l", "e", "_", "m", "e", "s", "s", "a", "g", "e", "-", "l", "o", "g", ".", "t", "x", "t">>
        /\ fnArg = <<"/", "a", "n", "y", "/", "d", "i", "r", "/">>
              => fnRet = <<"f", "i", "l", "e", "_", "b", "i", "n", "a", "r", "y">>
        /\ fnArg = <<".", ".", "/", ".", ".", "/", ".", ".", "/", "e", "t", "c", "/", "p", "a", "s", "s", "w", "d">>
              => fnRet = <<"f", "i", "l", "e", "_", "p", "a", "s", "s", "w", "d">>

\* safe_filename has returned "file_passwd" for "../../../etc/passwd".
C20_Witness ==
    /\ fnArg = <<".", ".", "/", ".", ".", "/", ".", ".", "/", "e", "t", "c", "/", "p", "a", "s", "s", "w", "d">>
    /\ fnRet = <<"f", "i", "l", "e", "_", "p", "a", "s", "s", "w", "d">>

\* The directory part of a path: what stands before its last '/'.
RECURSIVE DirOf(_)
DirOf(path) ==
    IF path = <<>> THEN <<>>
    ELSE IF path[Len(path)] = "/" THEN SubSeq(path, 1, Len(path) - 1)
    ELSE DirOf(SubSeq(path, 1, Len(path) - 1))

\* C21: for every identifier the name safe_filename returns contains no
\* '/' and is neither "." nor "..", so that the file a Raw event with this
\* identifier is written to is <log_path>/<name>, a direct child of the
\* log directory: the directory part of the file's path is the log path
\* itself.
C21_NoPathTraversal ==
    fnRet # <<>> =>
        /\ \A k \in 1..Len(fnRet) : fnRet[k] # "/"
        /\ fnRet # <<".">>
        /\ fnRet # <<".", ".">>
        /\ \A dir \in {i.log_path : i \in SessionInits} :
              /\ RawFileOf(dir, fnArg) = dir \o <<"/">> \o fnRet
              /\ DirOf(RawFileOf(dir, fnArg)) = dir

\* safe_filename has returned "file_.." for the identifier "a/..".
C21_Witness ==
    /\ fnArg = <<"a", "/", ".", ".">>
    /\ fnRet = <<"f", "i", "l", "e", "_", ".", ".">>

\* How the log-query interface is to show an event: a text as it is, a
\* Raw event as "binary:", its identifier, ":" and the number of bytes of
\* its payload in decimal.
Shown(e) ==
    IF e.kind = "Text" THEN e.text
    ELSE <<"b", "i", "n", "a", "r", "y", ":">> \o e.ident \o <<":">>
            \o (CASE Len(e.data) = 0 -> <<"0">>
                  [] Len(e.data) = 2 -> <<"2">>
                  [] Len(e.data) = 12 -> <<"1", "2">>)

\* The events of evs with sequence number in [first, last), last = 0 for
\* no end.
Slice(evs, first, last) ==
    LET stop == IF last = 0 THEN Len(evs) ELSE Min(last, Len(evs))
    IN  IF first >= stop THEN <<>> ELSE SubSeq(evs, first + 1, stop)

\* C22: every GetEvents response shows a Text event as its text and a Raw
\* event as "binary:<identifier>:<number of payload bytes>", and nothing
\* else: an entry for a Raw event has the length of that rendering, so no
\* payload byte is part of it.
C22_Rendering ==
    (Handled("GetEvents") /\ resp.kind = "EventsData") =>
        LET evs == Slice(accepted[cur.msg.id], cur.msg.first_entry, cur.msg.last_entry)
        IN  /\ Len(resp.data) = Len(evs)
            /\ \A k \in 1..Len(evs) :
                  /\ resp.data[k] = Shown(evs[k])
                  /\ evs[k].kind = "Text" => resp.data[k] = evs[k].text
                  /\ evs[k].kind = "Raw" =>
                        Len(resp.data[k]) = 8 + Len(evs[k].ident)
                                              + (IF Len(evs[k].data) < 10 THEN 1 ELSE 2)

\* A GetEvents has returned "A" and "binary:s:12" for a Text event and a
\* Raw event with a payload of twelve bytes.
C22_Witness ==
    /\ Handled("GetEvents")
    /\ resp = EventsData(<< <<"A">>, <<"b", "i", "n", "a", "r", "y", ":", "s", ":", "1", "2">> >>)
    /\ accepted[cur.msg.id][2].kind = "Raw"
    /\ Len(accepted[cur.msg.id][2].data) = 12

\* C23: in every reachable state the sequence numbers of each registered
\* session's log are exactly 0 .. n-1 for its n events, the entry with
\* number k being the k-th admitted; and an admitted event is stored under
\* the number that was the length of the log before it, the entries
\* before it keeping their numbers.
C23_SequenceNumbersDense ==
    /\ \A id \in DOMAIN sessions :
          LET log == sessions[id].log
          IN  /\ DOMAIN log = 0..(Cardinality(DOMAIN log) - 1)
              /\ Cardinality(DOMAIN log) = Len(accepted[id])
              /\ \A k \in DOMAIN log : log[k] = accepted[id][k + 1]
    /\ (Handled("AddEvent") /\ resp = Success) =>
          LET old == before.sessions[cur.msg.auth.ident].log
              new == sessions[cur.msg.auth.ident].log
              n == Cardinality(DOMAIN old)
          IN  /\ DOMAIN new = DOMAIN old \cup {n}
              /\ n \notin DOMAIN old
              /\ new[n] = cur.msg.event
              /\ \A k \in DOMAIN old : new[k] = old[k] /\ k < n

\* A Text event was admitted under number 1 to a session that held a Raw
\* event under number 0.
C23_Witness ==
    /\ Handled("AddEvent")
    /\ resp = Success
    /\ DOMAIN before.sessions[cur.msg.auth.ident].log = {0}
    /\ before.sessions[cur.msg.auth.ident].log[0].kind = "Raw"
    /\ DOMAIN sessions[cur.msg.auth.ident].log = {0, 1}
    /\ sessions[cur.msg.auth.ident].log[1] = Text(<<"A">>)

\* The step is the handling of an AddEvent that is admitted to id.
Admits(id) ==
    /\ AddsTo(id)
    /\ apc' = "reply"
    /\ resp' = Success

\* C24: the last-activity timestamp of a session that stays registered and
\* is not replaced changes only in the step that admits an event to it,
\* and then to the time of that step; so an AddEvent that fails
\* verification, an AddEvent, GetEvents or RemoveSession for another or an
\* unknown id, a GetEvents of the session and a Cleanup that retains it
\* leave the timestamp as it was.
C24_TimestampOnlyOnAdmission ==
    [][ \A id \in DOMAIN sessions \cap DOMAIN sessions' :
          ~Recreates(id) =>
              /\ sessions'[id].last_updated # sessions[id].last_updated =>
                    (Admits(id) /\ sessions'[id].last_updated = clock)
              /\ (apc = "handle" /\ apc' = "reply" /\ ~Admits(id)) =>
                    sessions'[id].last_updated = sessions[id].last_updated
              /\ (apc = "handle" /\ apc' = "reply"
                    /\ cur.msg.type \in {"GetEvents", "Cleanup", "RemoveSession"}) =>
                    sessions'[id] = sessions[id]
      ]_vars

\* An AddEvent with a bad signature was refused for a session that was
\* last active before the time of handling, and its timestamp is as
\* before.
C24_Witness ==
    /\ Handled("AddEvent")
    /\ resp = Failure
    /\ cur.msg.auth.ident \in DOMAIN before.sessions
    /\ before.sessions[cur.msg.auth.ident].last_updated < before.now
    /\ DOMAIN before.sessions[cur.msg.auth.ident].log # {}
    /\ sessions[cur.msg.auth.ident].last_updated
          = before.sessions[cur.msg.auth.ident].last_updated

\* C26: the secret, the timeout and the log path (and the id) of a session
\* that stays registered change in no step but the handling of a
\* CreateSession for its id: no AddEvent, admitted or refused, no
\* GetEvents, no Cleanup and no RemoveSession of another id changes them.
C26_SecretImmutable ==
    [][ \A id \in DOMAIN sessions \cap DOMAIN sessions' :
          ~Recreates(id) =>
              /\ sessions'[id].secret = sessions[id].secret
              /\ sessions'[id].timeout = sessions[id].timeout
              /\ sessions'[id].log_path = sessions[id].log_path
              /\ sessions'[id].id = sessions[id].id
      ]_vars

\* An event with the signature "a" was admitted to session "2", whose
\* secret is still " a".
C26_Witness ==
    /\ Handled("AddEvent")
    /\ resp = Success
    /\ cur.msg.auth.ident = "2"
    /\ cur.msg.auth.signature = <<"a">>
    /\ before.sessions["2"].secret = <<" ", "a">>
    /\ sessions["2"].secret = <<" ", "a">>
    /\ DOMAIN sessions["2"].log # {}

\* C25: whatever becomes of the files, an admitted event sets the
\* session's last-activity timestamp to the time of its handling; the
\* timestamp of a session that holds events is never later than now; and
\* a Cleanup handled less than timeout seconds after a session's
\* timestamp, so after its last admitted event, keeps that session as it
\* is.
C25_AdmissionKeepsAlive ==
    /\ (Handled("AddEvent") /\ resp = Success) =>
          sessions[cur.msg.auth.ident].last_updated = before.now
    /\ \A id \in DOMAIN sessions : sessions[id].last_updated <= clock
    /\ Handled("Cleanup") =>
          \A id \in DOMAIN before.sessions :
              (before.now - before.sessions[id].last_updated
                    < before.sessions[id].timeout * TicksPerSec) =>
                  /\ id \in DOMAIN sessions
                  /\ sessions[id] = before.sessions[id]

\* A Cleanup has kept session "1", whose events.log could not be opened
\* and none of whose files exists, less than a second after its latest
\* event, admitted at a time later than any at which the session could
\* have been due had it stayed idle since the start.
C25_Witness ==
    /\ Handled("Cleanup")
    /\ "1" \in DOMAIN sessions
    /\ sessions["1"].file_descriptor = TriNever
    /\ files = NoFiles
    /\ Cardinality(DOMAIN sessions["1"].log) = 2
    /\ sessions["1"].last_updated >= sessions["1"].timeout * TicksPerSec
    /\ before.now - sessions["1"].last_updated < TicksPerSec
    /\ before.now > sessions["1"].last_updated
\* A validation failure among the calls of the request of handler p.
Rejected(p) ==
    \E k \in 1..Len(InnerOuts(p)) :
        InnerOuts(p)[k].kind = "reply" /\ InnerOuts(p)[k].resp = Failure

\* C27: a finished request one of whose messages was answered with
\* Failure (AddEvent for an unknown session or with a wrong token,
\* RemoveSession or GetEvents for an unknown id) gets a 4xx status, on the
\* routes of the control server, on POST /log and on POST /bin.
C27_FailureIs4xx ==
    \A p \in Producers :
        (Finished(p) /\ Rejected(p)) => Answer(p) \in 400..499

\* The same for every route but POST /bin.
C27_FailureIs4xxButBin ==
    \A p \in Producers :
        (Finished(p) /\ Rejected(p) /\ ~pbatch[p].bin) => Answer(p) \in 400..499
\* The control task has left its loop.
Terminated == apc \in {"stopping", "done"}

Ahead == {id \in DOMAIN before.sessions :
            before.now < before.sessions[id].last_updated}

Overdue(id) ==
    /\ id \in DOMAIN sessions
    /\ IdleSecs(clock, sessions[id].last_updated) >= sessions[id].timeout

\* A Cleanup has just removed the session.
Swept(id) ==
    /\ Handled("Cleanup")
    /\ id \in DOMAIN before.sessions
    /\ id \notin DOMAIN sessions

\* The session has just been created again or has admitted an event.
Renewed(id) ==
    /\ apc = "reply"
    /\ resp = Success
    /\ \/ cur.msg.type = "CreateSession" /\ cur.msg.init.id = id
       \/ cur.msg.type = "AddEvent" /\ cur.msg.auth.ident = id

\* C30: with the control task and the cleanup driver fairly scheduled, a
\* session whose idle time has reached its timeout is removed by a Cleanup
\* unless it is created again or admits an event before; and handling a
\* GetEvents or a rejected AddEvent changes nothing in the registry, so
\* such requests, queued again and again, do not put the removal off.
C30_IdleSessionSwept ==
    /\ \A id \in SessionIds : Overdue(id) ~> (Swept(id) \/ Renewed(id))
    /\ [][ (apc = "handle" /\ apc' = "reply"
              /\ (cur.msg.type = "GetEvents" \/ resp' = Failure))
             => sessions' = sessions ]_vars

\* The cleanup driver's Cleanup has removed the session, which had been
\* idle for its timeout, while a GetEvents or an AddEvent with a wrong
\* token of the client for that session waits in the queue behind it.
C30_Witness ==
    /\ Swept("1")
    /\ cur.reply = Driver
    /\ chan[Driver].st = "open"
    /\ ppc[1] = "waiting"
    /\ queue = <<Item(pmsg[1], 1)>>
    /\ \/ pmsg[1].type = "GetEvents"
       \/ pmsg[1].type = "AddEvent" /\ pmsg[1].auth.signature = <<"a", "b">>
\* The messages of requester p that the control task holds or that wait
\* in the queue.
Outstanding(p) ==
    LET held == IF apc \in {"handle", "reply"} THEN <<cur>> ELSE <<>>
        all == held \o queue
    IN  {k \in 1..Len(all) : all[k].reply = p}

\* How the calls of control_add_event that have returned so far ended, for
\* the POST /bin request of handler p.
KnownOuts(p) ==
    IF ppc[p] = "done" THEN Append(pbatch[p].outs, pout[p]) ELSE pbatch[p].outs

\* The parts of the request of handler p, by number, that were accepted.
AcceptedParts(p) ==
    {k \in 1..Len(KnownOuts(p)) :
        KnownOuts(p)[k].kind = "reply" /\ KnownOuts(p)[k].resp = Success}

\* The sequence numbers under which the log of session id holds event e.
KeysOf(id, e) == {k \in DOMAIN sessions[id].log : sessions[id].log[k] = e}

\* C31: a POST /bin request has at most one message outstanding; each
\* message it queues is a Raw AddEvent for the next part in part order,
\* queued only when the call for the part before has returned; and the
\* accepted parts that the session's log holds lie in it in part order,
\* whatever other requests put between them.
C31_PartsInOrder ==
    /\ [](\A p \in Producers :
            pbatch[p].bin =>
                /\ Cardinality(Outstanding(p)) <= 1
                /\ \A i, j \in AcceptedParts(p) :
                      (i < j /\ pmsg[p].auth.ident \in DOMAIN sessions) =>
                          \A ki \in KeysOf(pmsg[p].auth.ident, pbatch[p].parts[i]),
                             kj \in KeysOf(pmsg[p].auth.ident, pbatch[p].parts[j]) :
                              ki < kj)
    /\ [][ \A p \in Producers :
             (pbatch'[p].bin /\ Len(queue') = Len(queue) + 1
                  /\ queue'[Len(queue')].reply = p) =>
                 /\ Outstanding(p) = {}
                 /\ chan[p].st = "none"
                 /\ Len(pbatch'[p].outs) = Len(pbatch'[p].parts) - Len(pbatch'[p].rest) - 1
                 /\ (pbatch[p].bin /\ pbatch[p].outs # pbatch'[p].outs) =>
                       pbatch'[p].outs = Append(pbatch[p].outs, pout[p])
                 /\ queue'[Len(queue')].msg.type = "AddEvent"
                 /\ queue'[Len(queue')].msg.event
                       = pbatch'[p].parts[Len(pbatch'[p].outs) + 1]
                 /\ queue'[Len(queue')].msg.event.kind = "Raw"
       ]_vars

\* Both parts of a POST /bin request were accepted and the session's log
\* holds the first, then a line of another request, then the second.
C31_Witness ==
    /\ ppc[1] = "done"
    /\ pbatch[1].bin
    /\ Len(pbatch[1].parts) = 2
    /\ AcceptedParts(1) = {1, 2}
    /\ "1" \in DOMAIN sessions
    /\ DOMAIN sessions["1"].log = 0..2
    /\ sessions["1"].log[0] = pbatch[1].parts[1]
    /\ sessions["1"].log[1] = Text(<<"A">>)
    /\ sessions["1"].log[2] = pbatch[1].parts[2]
\* The comma-separated segments of a header, without leading blanks.
SegmentsOf(header) ==
    LET segs == Split(header, ",") IN [k \in 1..Len(segs) |-> TrimStart(segs[k])]

\* The key of a key=value segment, and its value without the quotes.
KeyOf(seg) == Split(seg, "=")[1]

ValueOf(seg) ==
    IF Len(seg) = Len(KeyOf(seg)) THEN <<>>
    ELSE TrimMatches(SubSeq(seg, Len(KeyOf(seg)) + 2, Len(seg)), Quote)

\* The segments of the header, by number, whose key is key.
Matching(header, key) ==
    {k \in 1..Len(SegmentsOf(header)) : KeyOf(SegmentsOf(header)[k]) = key}

\* The value of the first segment of the header whose key is key, and of
\* the last; empty when there is none.
FirstValue(header, key) ==
    IF Matching(header, key) = {} THEN <<>>
    ELSE ValueOf(SegmentsOf(header)[
            CHOOSE k \in Matching(header, key) : \A j \in Matching(header, key) : k <= j])

LastValue(header, key) ==
    IF Matching(header, key) = {} THEN <<>>
    ELSE ValueOf(SegmentsOf(header)[
            CHOOSE k \in Matching(header, key) : \A j \in Matching(header, key) : k >= j])

\* C32: the ident webhook_auth returns is the value of the first segment
\* of the header whose key is oauth_consumer_key and the signature is the
\* value of the first segment whose key is oauth_token; later segments
\* with the same key change neither.
C32_FirstSegmentWins ==
    fnRet # <<>> =>
        /\ fnRet[1].ident = FirstValue(fnArg, ConsumerKey)
        /\ fnRet[1].signature = FirstValue(fnArg, Token)

\* What webhook_auth returns instead: the values of the last segments
\* with these keys.
C32_LastSegmentWins ==
    fnRet # <<>> =>
        /\ fnRet[1].ident = LastValue(fnArg, ConsumerKey)
        /\ fnRet[1].signature = LastValue(fnArg, Token)

\* With one segment for each key it makes no difference.
C32_SingleSegment ==
    (fnRet # <<>> /\ Cardinality(Matching(fnArg, ConsumerKey)) <= 1
                  /\ Cardinality(Matching(fnArg, Token)) <= 1) =>
        /\ fnRet[1].ident = FirstValue(fnArg, ConsumerKey)
        /\ fnRet[1].signature = FirstValue(fnArg, Token)
\* C33: an admitted AddEvent leaves the set of registered ids as it was
\* and every session but the one named by auth.ident as it was: log, last
\* activity, state of the log file and the rest; the named session has
\* one event more.
C33_AddEventFrame ==
    (Handled("AddEvent") /\ resp = Success) =>
        /\ DOMAIN sessions = DOMAIN before.sessions
        /\ \A i \in DOMAIN before.sessions \ {cur.msg.auth.ident} :
              /\ sessions[i].log = before.sessions[i].log
              /\ sessions[i].last_updated = before.sessions[i].last_updated
              /\ sessions[i].file_descriptor = before.sessions[i].file_descriptor
              /\ sessions[i] = before.sessions[i]
        /\ Cardinality(DOMAIN sessions[cur.msg.auth.ident].log)
              = Cardinality(DOMAIN before.sessions[cur.msg.auth.ident].log) + 1

\* Session "1" has admitted an event at a time later than the last
\* activity of session "2", which holds an event, has given up on its log
\* file and is as it was; the log file of session "1" is open.
C33_Witness ==
    /\ Handled("AddEvent")
    /\ resp = Success
    /\ cur.msg.auth.ident = "1"
    /\ "2" \in DOMAIN before.sessions
    /\ before.sessions["2"].log # EmptyLog
    /\ before.sessions["2"].file_descriptor = TriNever
    /\ before.sessions["2"].last_updated < before.now
    /\ sessions["2"] = before.sessions["2"]
    /\ sessions["1"].file_descriptor.tri = "Yes"
    /\ sessions["1"].last_updated = before.now
\* C34: the cleanup driver never has more than one message held or
\* queued, and each is a Cleanup; it queues one only when none of its own
\* is outstanding; having queued one it goes on only when the reply has
\* arrived or the reply channel has lost its sender; and once the queue is
\* closed it queues nothing and, under fair scheduling, is always back at
\* its timer, neither the send nor the wait for the reply holding it.
C34_OneCleanupOutstanding ==
    /\ [](/\ Cardinality(Outstanding(Driver)) <= 1
          /\ \A k \in 1..Len(queue) :
                queue[k].reply = Driver => queue[k].msg = Cleanup
          /\ (apc \in {"handle", "reply"} /\ cur.reply = Driver) => cur.msg = Cleanup
          /\ ppc[Driver] \in {"idle", "sending", "waiting"})
    /\ [][ /\ (Len(queue') = Len(queue) + 1 /\ queue'[Len(queue')].reply = Driver) =>
                 /\ Outstanding(Driver) = {}
                 /\ ppc[Driver] \in {"idle", "sending"}
                 /\ ppc'[Driver] = "waiting"
                 /\ ~closed
           /\ (ppc[Driver] = "waiting" /\ ppc'[Driver] # "waiting") =>
                 /\ chan[Driver].st \in {"value", "txdropped"}
                 /\ Outstanding(Driver) = {}
                 /\ ppc'[Driver] = "idle"
           /\ (closed /\ ppc'[Driver] # ppc[Driver]) =>
                 /\ ppc'[Driver] = "idle"
                 /\ queue' = queue
         ]_vars
    /\ (closed /\ ppc[Driver] # "idle") ~> (ppc[Driver] = "idle")

\* The control task has ended with the driver's Cleanup still queued: the
\* reply channel has lost its sender and the driver, still waiting, is
\* about to go back to its timer.
C34_Witness ==
    /\ apc = "done"
    /\ closed
    /\ ppc[Driver] = "waiting"
    /\ chan[Driver].st = "txdropped"
    /\ Outstanding(Driver) = {}

====
